---- MODULE Spec2Model ----
(***************************************************************************)
(* Model of the coverage aggregation code of comment-coverage-clover:     *)
(* the Coverage value type (src/src/types/index.ts), the Clover           *)
(* ingestion fromString (src/unnamed/part_001), and filter, comment and   *)
(* checkThreshold of the main module (src/unnamed/part_000).              *)
(*                                                                         *)
(* Representation of JavaScript values                                     *)
(*   - a string is the sequence of its UTF-16 code units (naturals);       *)
(*   - a dynamically typed value is a record [t, n, s]: t is the type tag  *)
(*     ("number", "NaN", "string", "undefined"), n the integer of a        *)
(*     number, s the code units of a string;                               *)
(*   - Coverage.percentual is a number counted in units of 1/Scale, which  *)
(*     is exact because toFixed(4) leaves four decimal digits; the double  *)
(*     it stands for is the one nearest to that decimal.                   *)
(***************************************************************************)
EXTENDS Integers, Sequences, FiniteSets, TLC

VARIABLES pc, argTotal, argCovered, ratio, project, pullRequestFiles,
          workspace, stats, thrown, oldStats, inputs, msgs, rendered, requests,
          userFilter, commentId

vars == <<pc, argTotal, argCovered, ratio, project, pullRequestFiles,
          workspace, stats, thrown, oldStats, inputs, msgs, rendered, requests,
          userFilter, commentId>>

(***************************************************************************)
(* Bounds of the model                                                     *)
(***************************************************************************)
MaxRatio == 12
MaxFiles == 2
MaxTens == 2
MaxLine == 6
MaxEntries == 2
MaxHunk == 3

(***************************************************************************)
(* Program constants                                                       *)
(***************************************************************************)
Slash == 47
Hyphen == 45
Scale == 10000

(***************************************************************************)
(* JavaScript values                                                       *)
(***************************************************************************)
Num(i) == [t |-> "number", n |-> i, s |-> <<>>]
NaN == [t |-> "NaN", n |-> 0, s |-> <<>>]
Str(u) == [t |-> "string", n |-> 0, s |-> u]
Undefined == [t |-> "undefined", n |-> 0, s |-> <<>>]

IsNum(v) == v.t = "number"
Abs(i) == IF i < 0 THEN -i ELSE i
IsDigit(c) == c >= 48 /\ c <= 57

Last(q) == q[Len(q)]
Front(q) == SubSeq(q, 1, Len(q) - 1)

RECURSIVE DigitsValue(_)
DigitsValue(u) ==
  IF u = <<>> THEN 0 ELSE 10 * DigitsValue(Front(u)) + (Last(u) - 48)

RECURSIVE NatToString(_)
NatToString(i) ==
  IF i < 10 THEN <<48 + i>> ELSE NatToString(i \div 10) \o <<48 + (i % 10)>>

\* Number.prototype.toString of an integer
NumberToString(i) == IF i < 0 THEN <<Hyphen>> \o NatToString(-i) ELSE NatToString(i)

\* StringToNumber on the strings of the model: decimal digits ("" is 0),
\* anything else is NaN.
StringToNumber(u) ==
  IF \A i \in 1..Len(u) : IsDigit(u[i]) THEN Num(DigitsValue(u)) ELSE NaN

\* Number(v)
Number(v) ==
  CASE v.t = "string" -> StringToNumber(v.s)
    [] v.t = "undefined" -> NaN
    [] OTHER -> v

\* ToBoolean(v)
Truthy(v) ==
  CASE v.t = "string" -> v.s # <<>>
    [] v.t = "number" -> v.n # 0
    [] OTHER -> FALSE

(***************************************************************************)
(* Coverage (types/index.ts)                                               *)
(***************************************************************************)
\* parseFloat((c / t).toFixed(4)) in units of 1/Scale, t # 0.  toFixed takes
\* the nearest multiple of 1/Scale of the magnitude (the larger one on a
\* tie) and keeps the sign.
ToFixed4(c, t) ==
  LET sign == IF (c < 0) # (t < 0) THEN -1 ELSE 1
      q == (2 * Abs(c) * Scale + Abs(t)) \div (2 * Abs(t))
  IN  sign * q

\* mutant: the quotient is truncated instead of rounded
CoverageTruncated(total, covered) ==
  LET t == Number(total)
      c == Number(covered)
  IN  [total |-> t, covered |-> c,
       percentual |->
         IF IsNum(t) /\ t.n = 0 THEN Num(Scale)
         ELSE IF ~IsNum(t) \/ ~IsNum(c) THEN NaN
         ELSE Num((c.n * Scale) \div t.n)]

Coverage(total, covered) ==
  LET t == Number(total)
      c == Number(covered)
  IN  [total |-> t, covered |-> c,
       percentual |->
         IF IsNum(t) /\ t.n = 0 THEN Num(Scale)
         ELSE IF ~IsNum(t) \/ ~IsNum(c) THEN NaN
         ELSE Num(ToFixed4(c.n, t.n))]

(***************************************************************************)
(* String operations of the JavaScript runtime, on code-unit sequences    *)
(***************************************************************************)
\* a < b on strings: lexicographic by code unit
RECURSIVE StrLess(_, _)
StrLess(a, b) ==
  IF b = <<>> THEN FALSE
  ELSE IF a = <<>> THEN TRUE
  ELSE IF Head(a) # Head(b) THEN Head(a) < Head(b)
  ELSE StrLess(Tail(a), Tail(b))

\* String.prototype.startsWith
StartsWith(u, prefix) ==
  Len(prefix) <= Len(u) /\ SubSeq(u, 1, Len(prefix)) = prefix

\* String.prototype.endsWith
EndsWith(u, suffix) ==
  Len(suffix) <= Len(u) /\ SubSeq(u, Len(u) - Len(suffix) + 1, Len(u)) = suffix

\* String.prototype.slice(k) for 0 <= k
Slice(u, k) == SubSeq(u, k + 1, Len(u))

\* String.prototype.includes
Includes(u, part) ==
  \E i \in 0..(Len(u) - Len(part)) : SubSeq(u, i + 1, i + Len(part)) = part

\* index of the first occurrence of the code unit sep in u, 0 when there is none
FirstIndex(u, sep) ==
  IF \E i \in 1..Len(u) : u[i] = sep
  THEN CHOOSE i \in 1..Len(u) : u[i] = sep /\ \A j \in 1..(i - 1) : u[j] # sep
  ELSE 0

\* String.prototype.split(sep) for a one-unit separator: never empty,
\* "".split("/") is [""]
RECURSIVE Split(_, _)
Split(u, sep) ==
  LET i == FirstIndex(u, sep)
  IN  IF i = 0 THEN <<u>>
      ELSE <<SubSeq(u, 1, i - 1)>> \o Split(SubSeq(u, i + 1, Len(u)), sep)

\* Array.prototype.join(sep) on strings
RECURSIVE Join(_, _)
Join(parts, sep) ==
  IF parts = <<>> THEN <<>>
  ELSE IF Len(parts) = 1 THEN parts[1]
  ELSE parts[1] \o <<sep>> \o Join(Tail(parts), sep)

\* parseInt(v, 10): the longest prefix of decimal digits, NaN when it is empty
ParseInt(v) ==
  IF v.t # "string" THEN (IF IsNum(v) THEN v ELSE NaN)
  ELSE LET k == IF \A i \in 1..Len(v.s) : IsDigit(v.s[i]) THEN Len(v.s)
                 ELSE (CHOOSE i \in 1..Len(v.s) :
                         ~IsDigit(v.s[i]) /\ \A j \in 1..(i - 1) : IsDigit(v.s[j])) - 1
       IN  IF k = 0 THEN NaN ELSE Num(DigitsValue(SubSeq(v.s, 1, k)))

(***************************************************************************)
(* Folder (types/index.ts)                                                 *)
(***************************************************************************)
\* new Folder(name)
Folder(name) == [name |-> name, files |-> <<>>]

\* Folder.push(file)
FolderPush(folder, file) == [folder EXCEPT !.files = Append(@, file)]

\* Folder.get(name): the first file of that name, or null
NullFile == [name |-> <<>>, metrics |-> [none |-> TRUE], isNull |-> TRUE]
FolderGet(folder, name) ==
  IF \E i \in 1..Len(folder.files) : folder.files[i].name = name
  THEN LET i == CHOOSE i \in 1..Len(folder.files) :
                  /\ folder.files[i].name = name
                  /\ \A j \in 1..(i - 1) : folder.files[j].name # name
       IN  [name |-> folder.files[i].name, metrics |-> folder.files[i].metrics,
            isNull |-> FALSE]
  ELSE NullFile

(***************************************************************************)
(* Clover ingestion (part_001)                                             *)
(*                                                                         *)
(* The input is the project node of the compact JSON that xml2json makes   *)
(* of the report: a member that holds child elements is undefined (no      *)
(* child), one object (one child) or an array (several), modelled as       *)
(* [kind, items]; attribute values are strings, a missing attribute is     *)
(* undefined.                                                              *)
(***************************************************************************)
asList(arg) == IF arg.kind = "undefined" THEN <<>> ELSE arg.items

RECURSIVE FilesFromPackages(_)
FilesFromPackages(packages) ==
  IF packages = <<>> THEN <<>>
  ELSE asList(Head(packages).file) \o FilesFromPackages(Tail(packages))

getAllFiles(projectData) ==
  asList(projectData.file) \o FilesFromPackages(asList(projectData.package))

\* mutant: the line totals are read from the method attributes
createTotalMetricsMixed(attributes) ==
  [lines |-> Coverage(attributes.methods, attributes.coveredmethods),
   methods |-> Coverage(attributes.methods, attributes.coveredmethods),
   branches |-> Coverage(attributes.conditionals, attributes.coveredconditionals)]

createTotalMetrics(attributes) ==
  [lines |-> Coverage(attributes.statements, attributes.coveredstatements),
   methods |-> Coverage(attributes.methods, attributes.coveredmethods),
   branches |-> Coverage(attributes.conditionals, attributes.coveredconditionals)]

\* file._attributes.name = file._attributes.path || file._attributes.name
normalizeFileNames(files) ==
  [i \in 1..Len(files) |->
     [files[i] EXCEPT !.attributes.name =
        IF Truthy(files[i].attributes.path) THEN files[i].attributes.path ELSE @]]

\* mutant: the comparison is turned around (descending order)
compareNamesDescending(a, b) ==
  IF StrLess(b.attributes.name.s, a.attributes.name.s) THEN -1 ELSE 1

\* the comparison function handed to Array.prototype.sort
compareNames(a, b) ==
  IF StrLess(a.attributes.name.s, b.attributes.name.s) THEN -1 ELSE 1

\* Array.prototype.sort of V8 on a short array is a binary insertion sort:
\* an element goes behind every element that the comparison function does
\* not put after it, so elements of equal name keep their order.
RECURSIVE InsertByName(_, _)
InsertByName(sorted, x) ==
  IF sorted = <<>> THEN <<x>>
  ELSE IF compareNames(x, Last(sorted)) < 0
       THEN Append(InsertByName(Front(sorted), x), Last(sorted))
       ELSE Append(sorted, x)

RECURSIVE sortFilesByName(_)
sortFilesByName(files) ==
  IF files = <<>> THEN <<>>
  ELSE InsertByName(sortFilesByName(Front(files)), Last(files))

\* mutant: only the first segment is kept as the folder
extractFolderFromPathFirst(filePath) == Head(Split(filePath, Slash))

\* filePath.split("/").slice(0, -1).join("/")
extractFolderFromPath(filePath) == Join(Front(Split(filePath, Slash)), Slash)

\* filePath.split("/").pop() || filePath
extractFileNameFromPath(filePath) ==
  LET last == Last(Split(filePath, Slash))
  IN  IF last # <<>> THEN last ELSE filePath

extractFolderPaths(files) ==
  [i \in 1..Len(files) |->
     [attributes |-> files[i].attributes, metrics |-> files[i].metrics,
      line |-> files[i].line,
      folder |-> extractFolderFromPath(files[i].attributes.name.s)]]

\* the string a template literal makes of a value
StringOf(v) ==
  CASE v.t = "string" -> v.s
    [] v.t = "number" -> NumberToString(v.n)
    [] v.t = "NaN" -> <<78, 97, 78>>
    [] OTHER -> <<117, 110, 100, 101, 102, 105, 110, 101, 100>>

\* mutant: a line never extends the last range of its status
LineStepNoMerge(acc, line) ==
  LET lineNum == ParseInt(line.num)
      count == ParseInt(line.count)
      coverage == IF IsNum(count) /\ count.n > 0 THEN 100 ELSE 0
      range == [start |-> lineNum, end |-> lineNum, coverage |-> coverage]
  IN  [g0 |-> IF coverage = 100 THEN acc.g0 ELSE Append(acc.g0, range),
       g100 |-> IF coverage = 100 THEN Append(acc.g100, range) ELSE acc.g100,
       methodCoverage |->
         IF line.type = "method"
         THEN Append(acc.methodCoverage, [method |-> line.name, coverage |-> coverage])
         ELSE acc.methodCoverage]

\* one pass of lines.forEach in createFileMetrics: acc holds lineGroups["0"]
\* (g0), lineGroups["100"] (g100) and methodCoverage
LineStep(acc, line) ==
  LET lineNum == ParseInt(line.num)
      count == ParseInt(line.count)
      coverage == IF IsNum(count) /\ count.n > 0 THEN 100 ELSE 0
      group == IF coverage = 100 THEN acc.g100 ELSE acc.g0
      extend == /\ group # <<>>
                /\ IsNum(Last(group).end) /\ IsNum(lineNum)
                /\ Last(group).end.n = lineNum.n - 1
      grown == IF extend THEN [group EXCEPT ![Len(group)].end = lineNum]
               ELSE Append(group, [start |-> lineNum, end |-> lineNum,
                                   coverage |-> coverage])
      methods == IF line.type = "method"
                 THEN Append(acc.methodCoverage,
                             [method |-> line.name, coverage |-> coverage])
                 ELSE acc.methodCoverage
  IN  [g0 |-> IF coverage = 100 THEN acc.g0 ELSE grown,
       g100 |-> IF coverage = 100 THEN grown ELSE acc.g100,
       methodCoverage |-> methods]

RECURSIVE LinesForEach(_, _)
LinesForEach(acc, lines) ==
  IF lines = <<>> THEN acc ELSE LinesForEach(LineStep(acc, Head(lines)), Tail(lines))

\* range.start === range.end ? `${range.start}` : `${range.start}-${range.end}`
RangeToEntry(range) ==
  [line |-> IF IsNum(range.start) /\ IsNum(range.end) /\ range.start.n = range.end.n
            THEN StringOf(range.start)
            ELSE StringOf(range.start) \o <<Hyphen>> \o StringOf(range.end),
   coverage |-> range.coverage]

\* Object.keys(lineGroups) lists integer keys in ascending numeric order,
\* whatever the order of their creation: "0" comes before "100".
GroupsToLineCoverage(acc) ==
  [i \in 1..Len(acc.g0) |-> RangeToEntry(acc.g0[i])]
    \o [i \in 1..Len(acc.g100) |-> RangeToEntry(acc.g100[i])]

createFileMetrics(attributes, fileData) ==
  LET acc == LinesForEach([g0 |-> <<>>, g100 |-> <<>>, methodCoverage |-> <<>>],
                          asList(fileData.line))
  IN  [lines |-> Coverage(attributes.statements, attributes.coveredstatements),
       methods |-> Coverage(attributes.methods, attributes.coveredmethods),
       branches |-> Coverage(attributes.conditionals, attributes.coveredconditionals),
       lineCoverage |-> GroupsToLineCoverage(acc),
       methodCoverage |-> acc.methodCoverage]

\* the folders Map, in insertion order: a sequence of [key, value]
MapHas(map, key) == \E i \in 1..Len(map) : map[i].key = key
MapIndex(map, key) == CHOOSE i \in 1..Len(map) : map[i].key = key

\* one pass of the loop of groupFilesByFolder
GroupStep(foldersMap, fileData) ==
  LET folder == fileData.folder
      withFolder == IF MapHas(foldersMap, folder) THEN foldersMap
                    ELSE Append(foldersMap, [key |-> folder, value |-> Folder(folder)])
      i == MapIndex(withFolder, folder)
      file == [name |-> extractFileNameFromPath(fileData.attributes.name.s),
               metrics |-> createFileMetrics(fileData.metrics, fileData)]
  IN  [withFolder EXCEPT ![i].value = FolderPush(@, file)]

RECURSIVE GroupFrom(_, _)
GroupFrom(foldersMap, filesWithFolders) ==
  IF filesWithFolders = <<>> THEN foldersMap
  ELSE GroupFrom(GroupStep(foldersMap, Head(filesWithFolders)), Tail(filesWithFolders))

groupFilesByFolder(filesWithFolders) == GroupFrom(<<>>, filesWithFolders)

processFilesIntoFolders(files) ==
  groupFilesByFolder(extractFolderPaths(sortFilesByName(normalizeFileNames(files))))

(***************************************************************************)
(* fromString with a change set (part_001:95-193)                          *)
(*                                                                         *)
(* An entry of pullRequestFiles is a string (kind "string", its text in    *)
(* str) or an object (kind "object") with a file member and, when hasLines *)
(* holds, a lines member.  Numbers are exact: a proportion is the pair of  *)
(* its numerator and denominator, Math.round(x) is floor(x + 1/2).         *)
(***************************************************************************)
\* a + b of JavaScript: concatenation as soon as one side is a string
JSAdd(a, b) ==
  IF a.t = "string" \/ b.t = "string" THEN Str(StringOf(a) \o StringOf(b))
  ELSE IF IsNum(a) /\ IsNum(b) THEN Num(a.n + b.n)
  ELSE NaN

\* v > 0 after ToNumber
GreaterThanZero(v) == IsNum(Number(v)) /\ Number(v).n > 0

\* Math.round(v * num / den) for den > 0; NaN when v or num is not a number
RoundProduct(v, num, den) ==
  IF IsNum(Number(v)) /\ IsNum(num)
  THEN Num((2 * Number(v).n * num.n + den) \div (2 * den))
  ELSE NaN

\* file._attributes.name.startsWith(w) ? name.slice(w.length) : name
StripWorkspace(name, w) == IF StartsWith(name, w) THEN Slice(name, Len(w)) ELSE name

\* the callback of pullRequestFiles.some / find when hasLineInfo holds
MatchesFile(f, fileName) == Truthy(f.file) /\ Includes(f.file.s, fileName)

\* pullRequestFiles.some(...) for one file: "true", "false", or "throw" when
\* f.includes is called on an entry that is no string
RECURSIVE SomeEntry(_, _, _)
SomeEntry(entries, fileName, hasLineInfo) ==
  IF entries = <<>> THEN "false"
  ELSE LET f == Head(entries)
       IN  IF hasLineInfo
           THEN IF MatchesFile(f, fileName) THEN "true"
                ELSE SomeEntry(Tail(entries), fileName, hasLineInfo)
           ELSE IF f.kind # "string" THEN "throw"
                ELSE IF Includes(f.str, fileName) THEN "true"
                ELSE SomeEntry(Tail(entries), fileName, hasLineInfo)

\* pullRequestFiles.find(f => f.file && f.file.includes(fileName))
FindEntry(entries, fileName) ==
  IF \E i \in 1..Len(entries) : MatchesFile(entries[i], fileName)
  THEN LET i == CHOOSE i \in 1..Len(entries) :
                  /\ MatchesFile(entries[i], fileName)
                  /\ \A j \in 1..(i - 1) : ~MatchesFile(entries[j], fileName)
       IN  [found |-> TRUE, entry |-> entries[i]]
  ELSE [found |-> FALSE, entry |-> [none |-> TRUE]]

\* prFile.lines.map(...).filter(Boolean): a number n is n..n, a string with
\* a "-" is split and its first two parts converted, anything else dropped
RECURSIVE LineRanges(_)
LineRanges(lines) ==
  IF lines = <<>> THEN <<>>
  ELSE LET lineInfo == Head(lines)
       IN  IF lineInfo.t \in {"number", "NaN"}
           THEN <<[start |-> lineInfo, end |-> lineInfo]>> \o LineRanges(Tail(lines))
           ELSE IF lineInfo.t = "string" /\ Includes(lineInfo.s, <<Hyphen>>)
           THEN LET parts == Split(lineInfo.s, Hyphen)
                IN  <<[start |-> StringToNumber(parts[1]),
                       end |-> StringToNumber(parts[2])]>> \o LineRanges(Tail(lines))
           ELSE LineRanges(Tail(lines))

\* mutant: a range counts end - start lines
RECURSIVE TotalRangeLinesOpen(_)
TotalRangeLinesOpen(lineRanges) ==
  IF lineRanges = <<>> THEN Num(0)
  ELSE LET range == Last(lineRanges)
           sum == TotalRangeLinesOpen(Front(lineRanges))
       IN  IF IsNum(sum) /\ IsNum(range.start) /\ IsNum(range.end)
           THEN Num(sum.n + (range.end.n - range.start.n))
           ELSE NaN

\* lineRanges.reduce((sum, range) => sum + (range.end - range.start + 1), 0)
RECURSIVE TotalRangeLines(_)
TotalRangeLines(lineRanges) ==
  IF lineRanges = <<>> THEN Num(0)
  ELSE LET range == Last(lineRanges)
           sum == TotalRangeLines(Front(lineRanges))
       IN  IF IsNum(sum) /\ IsNum(range.start) /\ IsNum(range.end)
           THEN Num(sum.n + (range.end.n - range.start.n + 1))
           ELSE NaN

ZeroSums ==
  [statements |-> Num(0), coveredStatements |-> Num(0), methods |-> Num(0),
   coveredMethods |-> Num(0), conditionals |-> Num(0), coveredConditionals |-> Num(0)]

\* the branch for a file whose entry carries line ranges (part_001:126-167)
AddRanges(sums, m, lines) ==
  LET totalLines == m.statements
      coveredLines == m.coveredstatements
      totalRangeLines == TotalRangeLines(LineRanges(lines))
      propDen == IF GreaterThanZero(totalLines) THEN Number(totalLines).n ELSE 1
      propNum == IF GreaterThanZero(totalLines) THEN totalRangeLines ELSE Num(1)
      methodTotal == IF Truthy(m.methods) THEN m.methods ELSE Num(0)
      methodDen == IF GreaterThanZero(methodTotal) THEN Number(methodTotal).n ELSE 1
      methodNum == IF GreaterThanZero(methodTotal) THEN totalRangeLines ELSE Num(1)
      conditionalTotal == IF Truthy(m.conditionals) THEN m.conditionals ELSE Num(0)
      conditionalDen ==
        IF GreaterThanZero(conditionalTotal) THEN Number(conditionalTotal).n ELSE 1
      conditionalNum ==
        IF GreaterThanZero(conditionalTotal) THEN totalRangeLines ELSE Num(1)
  IN  [statements |-> JSAdd(sums.statements, RoundProduct(totalLines, propNum, propDen)),
       coveredStatements |->
         JSAdd(sums.coveredStatements, RoundProduct(coveredLines, propNum, propDen)),
       methods |-> JSAdd(sums.methods, RoundProduct(methodTotal, methodNum, methodDen)),
       coveredMethods |->
         JSAdd(sums.coveredMethods, RoundProduct(m.coveredmethods, methodNum, methodDen)),
       conditionals |->
         JSAdd(sums.conditionals,
               RoundProduct(conditionalTotal, conditionalNum, conditionalDen)),
       coveredConditionals |->
         JSAdd(sums.coveredConditionals,
               RoundProduct(m.coveredconditionals, conditionalNum, conditionalDen))]

\* the branches that count the whole file (part_001:168-185)
AddWhole(sums, m) ==
  [statements |-> JSAdd(sums.statements, m.statements),
   coveredStatements |-> JSAdd(sums.coveredStatements, m.coveredstatements),
   methods |-> JSAdd(sums.methods, m.methods),
   coveredMethods |-> JSAdd(sums.coveredMethods, m.coveredmethods),
   conditionals |-> JSAdd(sums.conditionals, m.conditionals),
   coveredConditionals |-> JSAdd(sums.coveredConditionals, m.coveredconditionals)]

\* one pass of allFiles.forEach (part_001:119-186)
SumStep(sums, file, entries, w, hasLineInfo) ==
  LET fileName == StripWorkspace(file.attributes.name.s, w)
      prFile == FindEntry(entries, fileName)
  IN  IF hasLineInfo /\ prFile.found /\ prFile.entry.hasLines
         /\ Len(prFile.entry.lines) > 0
      THEN AddRanges(sums, file.metrics, prFile.entry.lines)
      ELSE AddWhole(sums, file.metrics)

RECURSIVE SumFiles(_, _, _, _, _)
SumFiles(sums, files, entries, w, hasLineInfo) ==
  IF files = <<>> THEN sums
  ELSE SumFiles(SumStep(sums, Head(files), entries, w, hasLineInfo),
                Tail(files), entries, w, hasLineInfo)

RECURSIVE FilterFiles(_, _, _, _)
FilterFiles(files, entries, w, hasLineInfo) ==
  IF files = <<>> THEN <<>>
  ELSE IF SomeEntry(entries, StripWorkspace(Head(files).attributes.name.s, w),
                    hasLineInfo) = "true"
       THEN <<Head(files)>> \o FilterFiles(Tail(files), entries, w, hasLineInfo)
       ELSE FilterFiles(Tail(files), entries, w, hasLineInfo)

\* fromString(str, pullRequestFiles): cloverData is parseCloverXML(str), ws
\* the module constant workspace.  The result carries thrown when the call
\* ends in a TypeError instead of returning a Stats.
fromString(cloverData, entries, ws) ==
  LET allFiles == getAllFiles(cloverData)
      w == IF EndsWith(ws, <<Slash>>) THEN ws ELSE ws \o <<Slash>>
      hasLineInfo == Len(entries) > 0 /\ entries[1].kind = "object" /\ entries[1].hasLines
      throws == \E i \in 1..Len(allFiles) :
                  SomeEntry(entries, StripWorkspace(allFiles[i].attributes.name.s, w),
                            hasLineInfo) = "throw"
      kept == FilterFiles(allFiles, entries, w, hasLineInfo)
      sums == SumFiles(ZeroSums, kept, entries, w, hasLineInfo)
  IN  IF Len(entries) = 0
      THEN [thrown |-> FALSE,
            total |-> createTotalMetrics(cloverData.metrics),
            folders |-> processFilesIntoFolders(allFiles)]
      ELSE IF throws
      THEN [thrown |-> TRUE, total |-> [none |-> TRUE], folders |-> <<>>]
      ELSE [thrown |-> FALSE,
            total |-> [lines |-> Coverage(sums.statements, sums.coveredStatements),
                       methods |-> Coverage(sums.methods, sums.coveredMethods),
                       branches |-> Coverage(sums.conditionals, sums.coveredConditionals)],
            folders |-> processFilesIntoFolders(kept)]

(***************************************************************************)
(* Values that stand for "no value yet"                                    *)
(***************************************************************************)
NoRatio == [total |-> Undefined, covered |-> Undefined, percentual |-> Undefined]
NoProject == [none |-> TRUE]
NoStats == [none |-> TRUE]
NoInputs == [none |-> TRUE]

\* nothing of the main module has run: no baseline, no inputs, no messages,
\* nothing rendered, no request sent, no comment filter and no comment id
\* (null is 0, the ids of comments are positive)
NothingPublished ==
  rendered = <<>> /\ requests = <<>> /\ userFilter = "none" /\ commentId = 0
ReportOnly == oldStats = NoStats /\ inputs = NoInputs /\ msgs = <<>> /\ NothingPublished

(***************************************************************************)
(* Constructing a Coverage                                                 *)
(***************************************************************************)
\* the arguments a call can pass: numbers, NaN, undefined and the decimal
\* strings an XML attribute holds
RatioInputs ==
  {Num(i) : i \in -2..MaxRatio} \cup {NaN, Undefined}
    \cup {Str(NatToString(i)) : i \in 0..MaxRatio} \cup {Str(<<>>), Str(<<97>>)}

InitRatio ==
  /\ pc = "new"
  /\ argTotal \in RatioInputs
  /\ argCovered \in RatioInputs
  /\ ratio = NoRatio
  /\ ReportOnly
  /\ project = NoProject
  /\ pullRequestFiles = <<>>
  /\ workspace = <<>>
  /\ stats = NoStats
  /\ thrown = FALSE

NewCoverage ==
  /\ pc = "new"
  /\ ratio' = Coverage(argTotal, argCovered)
  /\ thrown' = FALSE
  /\ pc' = "constructed"
  /\ UNCHANGED <<argTotal, argCovered, project, pullRequestFiles, workspace, stats,
                  oldStats, inputs, msgs,
                 rendered, requests, userFilter, commentId>>

NextRatio == NewCoverage

SpecRatio == InitRatio /\ [][NextRatio]_vars

(***************************************************************************)
(* C1: constructing a Coverage never throws; its percentual is 1.0 when    *)
(* the total is 0, and otherwise covered/total rounded to four decimal     *)
(* digits: the multiple of 1/Scale nearest to the quotient (NaN when the   *)
(* quotient is NaN).                                                       *)
(***************************************************************************)
C1_RatioFraction ==
  pc = "constructed" =>
    LET t == Number(argTotal)
        c == Number(argCovered)
        p == ratio.percentual
    IN  /\ ~thrown
        /\ ratio.total = t /\ ratio.covered = c
        /\ (IsNum(t) /\ t.n = 0) => p = Num(Scale)
        /\ (IsNum(t) /\ t.n # 0 /\ IsNum(c)) =>
             /\ IsNum(p)
             /\ 2 * Abs(p.n * t.n - Scale * c.n) <= Abs(t.n)
        /\ (~IsNum(t) \/ (t.n # 0 /\ ~IsNum(c))) => p = NaN

\* 2/3 is rounded up to 0.6667
C1_Witness ==
  /\ pc = "constructed"
  /\ argTotal = Num(3) /\ argCovered = Num(2)
  /\ ratio.percentual = Num(6667)

(***************************************************************************)
(* C2: for all integers total >= 0 and covered >= 0 the percentual of      *)
(* Coverage(total, covered) lies in [0, 1], and Coverage(0, 0) has         *)
(* percentual 1.0.                                                         *)
(***************************************************************************)
C2_FractionInUnitInterval ==
  (pc = "constructed" /\ IsNum(argTotal) /\ IsNum(argCovered)
     /\ argTotal.n >= 0 /\ argCovered.n >= 0) =>
    /\ IsNum(ratio.percentual)
    /\ ratio.percentual.n >= 0 /\ ratio.percentual.n <= Scale
    /\ (argTotal.n = 0 /\ argCovered.n = 0) => ratio.percentual = Num(Scale)

(***************************************************************************)
(* Building a parsed report                                                *)
(***************************************************************************)
\* what xml2json (compact) makes of the children of one element name
Compact(items) ==
  [kind |-> IF Len(items) = 0 THEN "undefined"
            ELSE IF Len(items) = 1 THEN "object" ELSE "array",
   items |-> items]

\* an attribute that holds the decimal text of a count
Attr(i) == Str(NatToString(i))

\* the six coverage attributes of a metrics node
Attributes(st, cst, me, cme, co, cco) ==
  [statements |-> Attr(st), coveredstatements |-> Attr(cst),
   methods |-> Attr(me), coveredmethods |-> Attr(cme),
   conditionals |-> Attr(co), coveredconditionals |-> Attr(cco)]

\* a file node: path is a string or undefined, lines its line children
FileNode(name, path, metrics, lines) ==
  [attributes |-> [name |-> Str(name), path |-> path],
   metrics |-> metrics, line |-> Compact(lines)]

\* a project with its first k files at the root and the others in one package
ProjectNode(metrics, files, k) ==
  LET r == IF k < Len(files) THEN k ELSE Len(files)
  IN  [metrics |-> metrics,
       file |-> Compact(SubSeq(files, 1, r)),
       package |-> IF r = Len(files) THEN Compact(<<>>)
                   ELSE Compact(<<[file |-> Compact(SubSeq(files, r + 1, Len(files)))]>>)]

(***************************************************************************)
(* The action: one call of fromString                                      *)
(***************************************************************************)
FromString ==
  /\ pc = "parse"
  /\ \E r \in {fromString(project, pullRequestFiles, workspace)} :
       /\ stats' = [total |-> r.total, folders |-> r.folders]
       /\ thrown' = r.thrown
  /\ pc' = "parsed"
  /\ UNCHANGED <<argTotal, argCovered, ratio, project, pullRequestFiles, workspace,
                  oldStats, inputs, msgs,
                 rendered, requests, userFilter, commentId>>

NextIngest == FromString

(***************************************************************************)
(* Grouping: reports whose files differ in name and path; the file at      *)
(* position j has 10 * j statements, j of them covered, so that records    *)
(* can be told apart.                                                      *)
(***************************************************************************)
\* names: "a", "/a", "a/", "a/a", "a/b", "b/a", "a/a/b"
PathStrings ==
  {<<97>>, <<Slash, 97>>, <<97, Slash>>, <<97, Slash, 97>>, <<97, Slash, 98>>,
   <<98, Slash, 97>>, <<97, Slash, 97, Slash, 98>>}

\* the path attribute: missing, empty, or a path under a folder "b"
PathOptions == {Undefined, Str(<<>>), Str(<<98, Slash, 97>>)}

GroupFiles(names, paths) ==
  [j \in 1..Len(names) |->
     FileNode(names[j], paths[j], Attributes(10 * j, j, j, 1, 0, 0), <<>>)]

InitGroup ==
  /\ pc = "parse"
  /\ \E n \in 0..MaxFiles :
       \E names \in [1..n -> PathStrings] :
         \E paths \in [1..n -> PathOptions] :
           \E k \in {0, 1} :
             project = ProjectNode(Attributes(20, 10, 2, 1, 0, 0),
                                   GroupFiles(names, paths), k)
  /\ pullRequestFiles = <<>>
  /\ workspace = <<Slash, 119>>
  /\ stats = NoStats
  /\ thrown = FALSE
  /\ argTotal = Undefined
  /\ argCovered = Undefined
  /\ ratio = NoRatio
  /\ ReportOnly

SpecGroup == InitGroup /\ [][NextIngest]_vars

(***************************************************************************)
(* Vocabulary of the claims about grouping                                 *)
(***************************************************************************)
RECURSIVE ConcatAll(_)
ConcatAll(seqs) == IF seqs = <<>> THEN <<>> ELSE Head(seqs) \o ConcatAll(Tail(seqs))

\* the file nodes of the report: those of the project, then those of every
\* package, in document order
ReportFiles ==
  project.file.items
    \o ConcatAll([i \in 1..Len(project.package.items) |->
                    project.package.items[i].file.items])

\* the position of the last "/" of a path, 0 when it has none
LastSlash(path) ==
  IF \E i \in 1..Len(path) : path[i] = Slash
  THEN CHOOSE i \in 1..Len(path) :
         path[i] = Slash /\ \A j \in (i + 1)..Len(path) : path[j] # Slash
  ELSE 0

\* a path without its last segment, and that last segment
WithoutLastSegment(path) == SubSeq(path, 1, LastSlash(path) - 1)
LastSegment(path) == SubSeq(path, LastSlash(path) + 1, Len(path))

\* the records of the folder map, each with the key of its folder; a record
\* is told apart by its name and the line total of its metrics
StatsRecords ==
  ConcatAll([k \in 1..Len(stats.folders) |->
               [i \in 1..Len(stats.folders[k].value.files) |->
                  [folder |-> stats.folders[k].key,
                   name |-> stats.folders[k].value.files[i].name,
                   total |-> stats.folders[k].value.files[i].metrics.lines.total]]])

Count(seq, x) == Cardinality({i \in 1..Len(seq) : seq[i] = x})
SameBag(a, b) ==
  Len(a) = Len(b) /\ \A i \in 1..Len(a) : Count(a, a[i]) = Count(b, a[i])

DistinctKeys ==
  \A k, l \in 1..Len(stats.folders) :
    stats.folders[k].key = stats.folders[l].key => k = l

\* the canonical path as code computes it: the path attribute when it is a
\* non-empty string, else the name
CanonicalPath(f) ==
  IF f.attributes.path.t = "string" /\ f.attributes.path.s # <<>>
  THEN f.attributes.path.s ELSE f.attributes.name.s

(***************************************************************************)
(* C4 as stated: every file of the report is in exactly one folder, whose  *)
(* key is its canonical path (the path attribute if present, else the      *)
(* name) without the last "/"-separated segment, under a name equal to     *)
(* that last segment.                                                      *)
(***************************************************************************)
C4_FolderIsPathWithoutLastSegment ==
  pc = "parsed" =>
    /\ DistinctKeys
    /\ SameBag(StatsRecords,
               [i \in 1..Len(ReportFiles) |->
                  LET f == ReportFiles[i]
                      path == IF f.attributes.path.t = "string"
                              THEN f.attributes.path.s ELSE f.attributes.name.s
                  IN  [folder |-> WithoutLastSegment(path),
                       name |-> LastSegment(path),
                       total |-> Number(f.metrics.statements)]])

(***************************************************************************)
(* C4 amended: every file of the report is in exactly one folder, whose    *)
(* key is its canonical path (the path attribute if present and not empty, *)
(* else the name) without the last "/"-separated segment, under a name     *)
(* equal to that last segment, or to the whole canonical path when the     *)
(* last segment is empty (the path ends in "/").                           *)
(***************************************************************************)
C4_FolderOfCanonicalPath ==
  pc = "parsed" =>
    /\ DistinctKeys
    /\ SameBag(StatsRecords,
               [i \in 1..Len(ReportFiles) |->
                  LET f == ReportFiles[i]
                      path == CanonicalPath(f)
                  IN  [folder |-> WithoutLastSegment(path),
                       name |-> IF LastSegment(path) # <<>> THEN LastSegment(path)
                                ELSE path,
                       total |-> Number(f.metrics.statements)]])

\* a root file "a" and a package file with path "b/a": folders "" and "b"
C4_Witness ==
  /\ pc = "parsed"
  /\ Len(project.file.items) = 1 /\ Len(project.package.items) = 1
  /\ \E k, l \in 1..Len(stats.folders) :
       /\ stats.folders[k].key = <<98>>
       /\ stats.folders[k].value.files[1].name = <<97>>
       /\ stats.folders[l].key = <<>>
       /\ stats.folders[l].value.files[1].name = <<97>>

(***************************************************************************)
(* C5: the folder map is built from the files sorted ascending by          *)
(* canonical path (string comparison): there is an ascending arrangement   *)
(* of the files such that every folder holds its files in the order of     *)
(* that arrangement, and the folders are in the order of the first file of *)
(* the arrangement that belongs to each.                                   *)
(***************************************************************************)
Arrangements(n) ==
  {p \in [1..n -> 1..n] : \A a, b \in 1..n : p[a] = p[b] => a = b}

RECURSIVE FirstOccurrences(_)
FirstOccurrences(seq) ==
  IF seq = <<>> THEN <<>>
  ELSE LET front == FirstOccurrences(Front(seq))
       IN  IF \E i \in 1..Len(front) : front[i] = Last(seq) THEN front
           ELSE Append(front, Last(seq))

C5_SortedGrouping ==
  pc = "parsed" =>
    LET n == Len(ReportFiles)
        path(i) == CanonicalPath(ReportFiles[i])
        folderOf(i) == WithoutLastSegment(path(i))
    IN  \E p \in Arrangements(n) :
          /\ \A a, b \in 1..n : a < b => ~StrLess(path(p[b]), path(p[a]))
          /\ [k \in 1..Len(stats.folders) |-> stats.folders[k].key]
               = FirstOccurrences([a \in 1..n |-> folderOf(p[a])])
          /\ \A k \in 1..Len(stats.folders) :
               LET members == SelectSeq(p, LAMBDA i : folderOf(i) = stats.folders[k].key)
                   files == stats.folders[k].value.files
               IN  /\ Len(files) = Len(members)
                   /\ \A j \in 1..Len(files) :
                        files[j].metrics.lines.total
                          = Number(ReportFiles[members[j]].metrics.statements)

\* the report lists "b/a" before "a/b": the map holds folder "a" before "b"
C5_Witness ==
  /\ pc = "parsed"
  /\ Len(ReportFiles) = 2
  /\ CanonicalPath(ReportFiles[1]) = <<98, Slash, 97>>
  /\ CanonicalPath(ReportFiles[2]) = <<97, Slash, 98>>
  /\ Len(stats.folders) = 2
  /\ stats.folders[1].key = <<97>>
  /\ stats.folders[2].key = <<98>>

(***************************************************************************)
(* C6: file names are unique within one folder: of two files of the same   *)
(* canonical path the folder holds one record, the later one in sorted     *)
(* order, and Folder.get(name) returns the metrics of that later file.     *)
(***************************************************************************)
C6_UniqueNamesLastWins ==
  pc = "parsed" =>
    \A k \in 1..Len(stats.folders) :
      LET files == stats.folders[k].value.files
      IN  /\ \A i, j \in 1..Len(files) : files[i].name = files[j].name => i = j
          /\ \A a, b \in 1..Len(ReportFiles) :
               (a < b /\ CanonicalPath(ReportFiles[a]) = CanonicalPath(ReportFiles[b])
                  /\ WithoutLastSegment(CanonicalPath(ReportFiles[a]))
                       = stats.folders[k].key) =>
                 FolderGet(stats.folders[k].value,
                           extractFileNameFromPath(CanonicalPath(ReportFiles[b])))
                     .metrics.lines.total
                   = Number(ReportFiles[b].metrics.statements)

(***************************************************************************)
(* Ingestion without a change set: reports whose project node and file     *)
(* nodes carry independent counts                                          *)
(***************************************************************************)
\* (statements, coveredstatements) of a metrics node, in tens
CountPairs == {<<10 * t, 10 * c>> : t \in 0..MaxTens, c \in 0..MaxTens}

\* a metrics node whose six attributes follow from its statement counts
MetricsOf(pair) ==
  Attributes(pair[1], pair[2], pair[1] \div 10 + 1, pair[2] \div 10,
             pair[1] \div 5, pair[2] \div 5)

\* the file at position j is "src/a", "src/b", ...
SourceName(j) == <<115, 114, 99, Slash, 96 + j>>

InitIngest ==
  /\ pc = "parse"
  /\ \E n \in 0..MaxFiles :
       \E total \in CountPairs :
         \E pairs \in [1..n -> CountPairs] :
           project = ProjectNode(MetricsOf(total),
                                 [j \in 1..n |->
                                    FileNode(SourceName(j), Undefined,
                                             MetricsOf(pairs[j]), <<>>)],
                                 0)
  /\ pullRequestFiles = <<>>
  /\ workspace = <<Slash, 119>>
  /\ stats = NoStats
  /\ thrown = FALSE
  /\ argTotal = Undefined
  /\ argCovered = Undefined
  /\ ratio = NoRatio
  /\ ReportOnly

SpecIngest == InitIngest /\ [][NextIngest]_vars

\* r is the Coverage of the counts that the attributes total and covered hold
IsRatioOf(r, total, covered) ==
  /\ r.total = Number(total)
  /\ r.covered = Number(covered)
  /\ IF r.total.n = 0 THEN r.percentual = Num(Scale)
     ELSE /\ IsNum(r.percentual)
          /\ 2 * Abs(r.percentual.n * r.total.n - Scale * r.covered.n) <= Abs(r.total.n)

\* m is the metric set of the metrics node a
IsMetricSetOf(m, a) ==
  /\ IsRatioOf(m.lines, a.statements, a.coveredstatements)
  /\ IsRatioOf(m.methods, a.methods, a.coveredmethods)
  /\ IsRatioOf(m.branches, a.conditionals, a.coveredconditionals)

(***************************************************************************)
(* C3: without a change set the project total is built from the metrics    *)
(* node of the project alone (lines from statements/coveredstatements,     *)
(* methods from methods/coveredmethods, branches from conditionals/        *)
(* coveredconditionals), whatever the files hold, and the metric set of    *)
(* every file is built the same way from its own metrics node.             *)
(***************************************************************************)
C3_TotalsVerbatim ==
  (pc = "parsed" /\ pullRequestFiles = <<>>) =>
    /\ ~thrown
    /\ IsMetricSetOf(stats.total, project.metrics)
    /\ \A i \in 1..Len(ReportFiles) :
         \E k \in 1..Len(stats.folders) :
           \E j \in 1..Len(stats.folders[k].value.files) :
             /\ stats.folders[k].value.files[j].name
                  = LastSegment(ReportFiles[i].attributes.name.s)
             /\ IsMetricSetOf(stats.folders[k].value.files[j].metrics,
                              ReportFiles[i].metrics)

\* project 20/10 with the files a (10/10) and b (10/0): 0.5, 1.0 and 0.0
C3_Witness ==
  /\ pc = "parsed"
  /\ Len(ReportFiles) = 2
  /\ project.metrics.statements = Attr(20)
  /\ project.metrics.coveredstatements = Attr(10)
  /\ ReportFiles[1].metrics.statements = Attr(10)
  /\ ReportFiles[1].metrics.coveredstatements = Attr(10)
  /\ ReportFiles[2].metrics.statements = Attr(10)
  /\ ReportFiles[2].metrics.coveredstatements = Attr(0)
  /\ stats.total.lines.percentual = Num(5000)
  /\ Len(stats.folders) = 1
  /\ stats.folders[1].value.files[1].metrics.lines.percentual = Num(10000)
  /\ stats.folders[1].value.files[2].metrics.lines.percentual = Num(0)

(***************************************************************************)
(* Line records: one file whose line children vary                         *)
(***************************************************************************)
LineKinds == {"absent", "covered", "uncovered", "method"}

\* the line child of line number n: a statement hit twice, a statement never
\* hit, or a method "m" hit twice
LineNode(n, kind) ==
  [num |-> Attr(n),
   count |-> IF kind = "uncovered" THEN Attr(0) ELSE Attr(2),
   type |-> IF kind = "method" THEN "method" ELSE "stmt",
   name |-> <<109>>]

RECURSIVE LineNodes(_, _)
LineNodes(kinds, n) ==
  IF n = 0 THEN <<>>
  ELSE LineNodes(kinds, n - 1)
         \o (IF kinds[n] = "absent" THEN <<>> ELSE <<LineNode(n, kinds[n])>>)

Reverse(q) == [i \in 1..Len(q) |-> q[Len(q) + 1 - i]]

InitLines ==
  /\ pc = "parse"
  /\ \E kinds \in [1..MaxLine -> LineKinds] :
       \E descending \in BOOLEAN :
         project = ProjectNode(Attributes(6, 5, 1, 1, 0, 0),
                     <<FileNode(SourceName(1), Undefined,
                                Attributes(6, 5, 1, 1, 0, 0),
                                IF descending
                                THEN Reverse(LineNodes(kinds, MaxLine))
                                ELSE LineNodes(kinds, MaxLine))>>,
                     1)
  /\ pullRequestFiles = <<>>
  /\ workspace = <<Slash, 119>>
  /\ stats = NoStats
  /\ thrown = FALSE
  /\ argTotal = Undefined
  /\ argCovered = Undefined
  /\ ratio = NoRatio
  /\ ReportOnly

SpecLines == InitLines /\ [][NextIngest]_vars

\* the line records of the one file, and the line ranges computed for it
LineRecords == ReportFiles[1].line.items
LineCoverage == stats.folders[1].value.files[1].metrics.lineCoverage

LineNumber(l) == ParseInt(l.num).n
LineStatus(l) == IF ParseInt(l.count).n > 0 THEN 100 ELSE 0

StrictlyAscending ==
  \A i \in 1..(Len(LineRecords) - 1) :
    LineNumber(LineRecords[i]) < LineNumber(LineRecords[i + 1])

\* the first and the last line of an entry "n" or "n-m"
EntryStart(e) == StringToNumber(Head(Split(e.line, Hyphen))).n
EntryEnd(e) == StringToNumber(Last(Split(e.line, Hyphen))).n
WellFormedEntry(e) ==
  /\ Len(Split(e.line, Hyphen)) \in {1, 2}
  /\ \A i \in 1..Len(Split(e.line, Hyphen)) :
       Split(e.line, Hyphen)[i] # <<>> /\ IsNum(StringToNumber(Split(e.line, Hyphen)[i]))

\* "1-3"
Text(a, b) == IF a = b THEN NatToString(a) ELSE NatToString(a) \o <<Hyphen>> \o NatToString(b)

(***************************************************************************)
(* C7: line records arriving in ascending order are coalesced into         *)
(* same-status contiguous ranges that lineCoverage lists in ascending      *)
(* line-number order; lines 1,2,3,5,6 covered and 4 uncovered yield        *)
(* exactly [{1-3,100},{4,0},{5-6,100}].                                    *)
(***************************************************************************)
C7_RangesInLineOrder ==
  (pc = "parsed" /\ StrictlyAscending) =>
    /\ \A i \in 1..(Len(LineCoverage) - 1) :
         EntryStart(LineCoverage[i]) < EntryStart(LineCoverage[i + 1])
    /\ ([i \in 1..Len(LineRecords) |->
           <<LineNumber(LineRecords[i]), LineStatus(LineRecords[i])>>]
          = <<<<1, 100>>, <<2, 100>>, <<3, 100>>, <<4, 0>>, <<5, 100>>, <<6, 100>>>>
        => LineCoverage = <<[line |-> Text(1, 3), coverage |-> 100],
                            [line |-> Text(4, 4), coverage |-> 0],
                            [line |-> Text(5, 6), coverage |-> 100]>>)

(***************************************************************************)
(* C8: for line records in strictly ascending order the entries of         *)
(* lineCoverage are the maximal runs of consecutive reported lines of one  *)
(* status: each entry has start <= end and coverage 0 or 100, the entries  *)
(* are pairwise disjoint, every reported line lies in exactly one entry    *)
(* and that entry has the status of the line, every line of an entry is a  *)
(* reported line, and no two entries of one status are adjacent.           *)
(***************************************************************************)
C8_MaximalRuns ==
  (pc = "parsed" /\ StrictlyAscending) =>
    /\ \A i \in 1..Len(LineCoverage) :
         /\ WellFormedEntry(LineCoverage[i])
         /\ EntryStart(LineCoverage[i]) <= EntryEnd(LineCoverage[i])
         /\ LineCoverage[i].coverage \in {0, 100}
         /\ \A n \in EntryStart(LineCoverage[i])..EntryEnd(LineCoverage[i]) :
              \E k \in 1..Len(LineRecords) :
                /\ LineNumber(LineRecords[k]) = n
                /\ LineStatus(LineRecords[k]) = LineCoverage[i].coverage
    /\ \A i, j \in 1..Len(LineCoverage) :
         i # j =>
           /\ \/ EntryEnd(LineCoverage[i]) < EntryStart(LineCoverage[j])
              \/ EntryEnd(LineCoverage[j]) < EntryStart(LineCoverage[i])
           /\ ~ /\ LineCoverage[i].coverage = LineCoverage[j].coverage
                /\ EntryEnd(LineCoverage[i]) + 1 = EntryStart(LineCoverage[j])
    /\ \A k \in 1..Len(LineRecords) :
         \E i \in 1..Len(LineCoverage) :
           /\ EntryStart(LineCoverage[i]) <= LineNumber(LineRecords[k])
           /\ LineNumber(LineRecords[k]) <= EntryEnd(LineCoverage[i])
           /\ LineCoverage[i].coverage = LineStatus(LineRecords[k])

\* lines 1,2,3,5,6 covered and 4 uncovered: the uncovered range, then the
\* covered ranges
C8_Witness ==
  /\ pc = "parsed"
  /\ StrictlyAscending
  /\ [i \in 1..Len(LineRecords) |->
        <<LineNumber(LineRecords[i]), LineStatus(LineRecords[i])>>]
       = <<<<1, 100>>, <<2, 100>>, <<3, 100>>, <<4, 0>>, <<5, 100>>, <<6, 100>>>>
  /\ LineCoverage = <<[line |-> Text(4, 4), coverage |-> 0],
                      [line |-> Text(1, 3), coverage |-> 100],
                      [line |-> Text(5, 6), coverage |-> 100]>>

(***************************************************************************)
(* The touched list (getPullRequestChanges, main module)                   *)
(***************************************************************************)
\* the element pushed for a hunk "+newStart,newCount": the line itself when
\* the hunk has one line, else the text "newStart-newEnd"
HunkLine(newStart, newCount) ==
  LET newEnd == newStart + newCount - 1
  IN  IF newStart = newEnd THEN Num(newStart)
      ELSE Str(NumberToString(newStart) \o <<Hyphen>> \o NumberToString(newEnd))

\* an entry {file, lines}, an entry {file} and an entry that is a bare string
ObjectEntry(file, lines) ==
  [kind |-> "object", str |-> <<>>, file |-> Str(file), hasLines |-> TRUE,
   lines |-> lines]
WholeEntry(file) ==
  [kind |-> "object", str |-> <<>>, file |-> Str(file), hasLines |-> FALSE,
   lines |-> <<>>]
StringEntry(text) ==
  [kind |-> "string", str |-> text, file |-> Undefined, hasLines |-> FALSE,
   lines |-> <<>>]

(***************************************************************************)
(* File selection: reports whose files carry a name, or a name and a path, *)
(* read against touched lists                                              *)
(***************************************************************************)
\* "/w/a/b", and "b" with the path "/w/a/b"; "/w/c", and "c" with "/w/a/c"
NamedFiles ==
  {<<<<Slash, 119, Slash, 97, Slash, 98>>, Undefined>>,
   <<<<98>>, Str(<<Slash, 119, Slash, 97, Slash, 98>>)>>,
   <<<<Slash, 119, Slash, 99>>, Undefined>>,
   <<<<99>>, Str(<<Slash, 119, Slash, 97, Slash, 99>>)>>}

\* "a/b", "c", "x/b"
TouchedNames == {<<97, Slash, 98>>, <<99>>, <<120, Slash, 98>>}

TouchedEntries ==
  {ObjectEntry(t, <<Num(1)>>) : t \in TouchedNames}
    \cup {WholeEntry(<<97, Slash, 98>>), StringEntry(<<97, Slash, 98>>)}

InitSelect ==
  /\ pc = "parse"
  /\ \E n \in 1..MaxFiles :
       \E shapes \in [1..n -> NamedFiles] :
         project = ProjectNode(Attributes(20, 10, 2, 1, 0, 0),
                               GroupFiles([j \in 1..n |-> shapes[j][1]],
                                          [j \in 1..n |-> shapes[j][2]]),
                               0)
  /\ \E n \in 1..MaxEntries : pullRequestFiles \in [1..n -> TouchedEntries]
  /\ workspace \in {<<Slash, 119>>, <<Slash, 119, Slash>>}
  /\ stats = NoStats
  /\ thrown = FALSE
  /\ argTotal = Undefined
  /\ argCovered = Undefined
  /\ ratio = NoRatio
  /\ ReportOnly

SpecSelect == InitSelect /\ [][NextIngest]_vars

\* the workspace prefix, and the canonical path of a file without it
WorkspacePrefix == IF EndsWith(workspace, <<Slash>>) THEN workspace ELSE workspace \o <<Slash>>
NormalizedPath(f) == StripWorkspace(CanonicalPath(f), WorkspacePrefix)

\* every touched entry is a {file, lines} with a line, as getPullRequestChanges
\* builds them
EntriesCarryLines ==
  \A i \in 1..Len(pullRequestFiles) :
    /\ pullRequestFiles[i].kind = "object"
    /\ pullRequestFiles[i].hasLines
    /\ Len(pullRequestFiles[i].lines) > 0

\* the files of the report are told apart by their statement counts
RetainedTotals == {StatsRecords[i].total : i \in 1..Len(StatsRecords)}

(***************************************************************************)
(* C9: with a non-empty touched list, a file is retained iff its           *)
(* normalized path (path attribute if present else name, without the       *)
(* workspace prefix) is a substring of the file of some touched entry; all *)
(* other files are absent from the folders.                                *)
(***************************************************************************)
C9_RetainedIffNormalizedPathTouched ==
  (pc = "parsed" /\ Len(pullRequestFiles) > 0 /\ EntriesCarryLines) =>
    /\ ~thrown
    /\ RetainedTotals =
         {Number(ReportFiles[j].metrics.statements) :
            j \in {j \in 1..Len(ReportFiles) :
                     \E i \in 1..Len(pullRequestFiles) :
                       Includes(pullRequestFiles[i].file.s,
                                NormalizedPath(ReportFiles[j]))}}

(***************************************************************************)
(* Attribution: files under the workspace, each with its own touched entry *)
(***************************************************************************)
MetricSamples ==
  {Attributes(10, 4, 2, 1, 4, 2), Attributes(4, 2, 1, 1, 0, 0),
   Attributes(0, 0, 0, 0, 0, 0), Attributes(100, 40, 5, 2, 10, 5)}

\* the lines of an entry: one hunk of 0..MaxHunk lines or of ten lines, or a
\* hunk of one or of MaxHunk lines and a second one of two lines
LineOptions ==
  {<<HunkLine(1, c)>> : c \in 0..MaxHunk}
    \cup {<<HunkLine(1, c), HunkLine(9, 2)>> : c \in {1, MaxHunk}}
    \cup {<<HunkLine(1, 10)>>}

\* per file: no entry, an entry without lines, or an entry with lines
EntryOptions == {<<"none">>, <<"whole">>} \cup {<<"lines", l>> : l \in LineOptions}

RECURSIVE EntriesFor(_, _)
EntriesFor(options, n) ==
  IF n = 0 THEN <<>>
  ELSE EntriesFor(options, n - 1)
         \o (CASE options[n][1] = "none" -> <<>>
               [] options[n][1] = "whole" -> <<WholeEntry(SourceName(n))>>
               [] OTHER -> <<ObjectEntry(SourceName(n), options[n][2])>>)

InitAttrib ==
  /\ pc = "parse"
  /\ \E n \in 1..MaxFiles :
       /\ \E metrics \in [1..n -> MetricSamples] :
            project = ProjectNode(Attributes(20, 10, 2, 1, 0, 0),
                        [j \in 1..n |->
                           FileNode(<<Slash, 119, Slash>> \o SourceName(j),
                                    Undefined, metrics[j], <<>>)],
                        0)
       /\ \E options \in [1..n -> EntryOptions] :
            pullRequestFiles = EntriesFor(options, n)
  /\ workspace = <<Slash, 119>>
  /\ stats = NoStats
  /\ thrown = FALSE
  /\ argTotal = Undefined
  /\ argCovered = Undefined
  /\ ratio = NoRatio
  /\ ReportOnly

SpecAttrib == InitAttrib /\ [][NextIngest]_vars

\* the positions of the files that have a touched entry, and that entry
Touched == {j \in 1..Len(ReportFiles) :
              \E i \in 1..Len(pullRequestFiles) :
                pullRequestFiles[i].file.s = SourceName(j)}
EntryOf(j) ==
  pullRequestFiles[CHOOSE i \in 1..Len(pullRequestFiles) :
                     pullRequestFiles[i].file.s = SourceName(j)]

\* round(x * r / t), the share of x under the proportion r / t (1 when t is 0)
Share(x, r, t) == IF t > 0 THEN (2 * x * r + t) \div (2 * t) ELSE x

RECURSIVE SumOver(_, _)
SumOver(fn, set) ==
  IF set = {} THEN 0
  ELSE LET j == CHOOSE j \in set : TRUE
       IN  fn[j] + SumOver(fn, set \ {j})

\* the share of attribute x of file j under the one proportion of that file
FileShare(j, x) ==
  Share(Number(x).n,
        TotalRangeLines(LineRanges(EntryOf(j).lines)).n,
        Number(ReportFiles[j].metrics.statements).n)

(***************************************************************************)
(* C10: a retained file with explicit line ranges contributes, under the   *)
(* one proportion totalRangeLines / statements (1 when statements is 0),   *)
(* round(methods x proportion) and round(coveredmethods x proportion) to   *)
(* the method totals and round(conditionals x proportion) and              *)
(* round(coveredconditionals x proportion) to the branch totals, as it     *)
(* contributes round(statements x proportion) and                          *)
(* round(coveredstatements x proportion) to the line totals.               *)
(***************************************************************************)
C10_OneProportionForAllKinds ==
  (pc = "parsed" /\ Len(pullRequestFiles) > 0 /\ EntriesCarryLines) =>
    /\ ~thrown
    /\ stats.total.lines.total =
         Num(SumOver([j \in Touched |-> FileShare(j, ReportFiles[j].metrics.statements)],
                     Touched))
    /\ stats.total.lines.covered =
         Num(SumOver([j \in Touched |->
                        FileShare(j, ReportFiles[j].metrics.coveredstatements)],
                     Touched))
    /\ stats.total.methods.total =
         Num(SumOver([j \in Touched |-> FileShare(j, ReportFiles[j].metrics.methods)],
                     Touched))
    /\ stats.total.methods.covered =
         Num(SumOver([j \in Touched |->
                        FileShare(j, ReportFiles[j].metrics.coveredmethods)],
                     Touched))
    /\ stats.total.branches.total =
         Num(SumOver([j \in Touched |-> FileShare(j, ReportFiles[j].metrics.conditionals)],
                     Touched))
    /\ stats.total.branches.covered =
         Num(SumOver([j \in Touched |->
                        FileShare(j, ReportFiles[j].metrics.coveredconditionals)],
                     Touched))

\* the lines of one element of `lines`: a bare number is one line, a text
\* "start-end" is end - start + 1 lines
LineInfoCount(lineInfo) ==
  IF IsNum(lineInfo) THEN 1
  ELSE StringToNumber(Last(Split(lineInfo.s, Hyphen))).n
         - StringToNumber(Head(Split(lineInfo.s, Hyphen))).n + 1

RECURSIVE RangeLineCount(_)
RangeLineCount(lines) ==
  IF lines = <<>> THEN 0 ELSE LineInfoCount(Head(lines)) + RangeLineCount(Tail(lines))

\* round(x * totalRangeLines / statements) for file j
LineShare(j, x) ==
  Share(Number(x).n, RangeLineCount(EntryOf(j).lines),
        Number(ReportFiles[j].metrics.statements).n)

(***************************************************************************)
(* C11: a retained file with explicit line ranges has totalRangeLines =    *)
(* the sum of end - start + 1 over its ranges (a bare number being one     *)
(* line) and contributes round(statements x totalRangeLines / statements)  *)
(* to the line total and round(coveredstatements x totalRangeLines /       *)
(* statements) to the covered line total.                                  *)
(***************************************************************************)
C11_LineTotalsByRangeLines ==
  (pc = "parsed" /\ Len(pullRequestFiles) > 0 /\ EntriesCarryLines) =>
    /\ ~thrown
    /\ stats.total.lines.total =
         Num(SumOver([j \in Touched |-> LineShare(j, ReportFiles[j].metrics.statements)],
                     Touched))
    /\ stats.total.lines.covered =
         Num(SumOver([j \in Touched |->
                        LineShare(j, ReportFiles[j].metrics.coveredstatements)],
                     Touched))

\* statements=100, coveredstatements=40 and the ten lines 1-10: 10 and 4
C11_Witness ==
  /\ pc = "parsed"
  /\ Len(ReportFiles) = 1
  /\ ReportFiles[1].metrics.statements = Attr(100)
  /\ ReportFiles[1].metrics.coveredstatements = Attr(40)
  /\ pullRequestFiles = <<ObjectEntry(SourceName(1), <<Str(Text(1, 10))>>)>>
  /\ stats.total.lines.total = Num(10)
  /\ stats.total.lines.covered = Num(4)

\* some touched entry is a {file} without lines
SomeEntryOmitsLines ==
  \E i \in 1..Len(pullRequestFiles) :
    pullRequestFiles[i].kind = "object" /\ ~pullRequestFiles[i].hasLines

\* the full reported count x of every file that has a touched entry
FullCounts(x) ==
  SumOver([j \in Touched |-> Number(ReportFiles[j].metrics[x]).n], Touched)

(***************************************************************************)
(* C12: for every touched list in which some or all entries omit `lines`,  *)
(* fromString completes, whichever entry comes first, and a file whose     *)
(* entry has no ranges contributes its full reported counts: when no entry *)
(* has ranges the six totals are the sums of the reported counts.          *)
(***************************************************************************)
C12_WholeFileEntriesComplete ==
  (pc = "parsed" /\ SomeEntryOmitsLines) =>
    /\ ~thrown
    /\ (\A i \in 1..Len(pullRequestFiles) : ~pullRequestFiles[i].hasLines) =>
         /\ stats.total.lines.total = Num(FullCounts("statements"))
         /\ stats.total.lines.covered = Num(FullCounts("coveredstatements"))
         /\ stats.total.methods.total = Num(FullCounts("methods"))
         /\ stats.total.methods.covered = Num(FullCounts("coveredmethods"))
         /\ stats.total.branches.total = Num(FullCounts("conditionals"))
         /\ stats.total.branches.covered = Num(FullCounts("coveredconditionals"))

\* the numeric contribution of file j to the sum named x, as one pass of the
\* loop computes it from zero
Contribution(j, x) ==
  Number(SumStep(ZeroSums, ReportFiles[j], pullRequestFiles, WorkspacePrefix,
                 pullRequestFiles[1].hasLines)[x]).n

Contributions(x) == SumOver([j \in Touched |-> Contribution(j, x)], Touched)

(***************************************************************************)
(* C13: with a change set each of the six totals is the arithmetic sum,    *)
(* over the retained files, of the numeric contribution of the file, for   *)
(* any mix of files with ranges and whole-file files and for attribute     *)
(* values as read from the XML; the three total ratios are built from      *)
(* these sums.                                                             *)
(***************************************************************************)
C13_TotalsAreArithmeticSums ==
  (pc = "parsed" /\ Len(pullRequestFiles) > 0 /\ ~thrown) =>
    /\ stats.total.lines
         = Coverage(Num(Contributions("statements")),
                    Num(Contributions("coveredStatements")))
    /\ stats.total.methods
         = Coverage(Num(Contributions("methods")), Num(Contributions("coveredMethods")))
    /\ stats.total.branches
         = Coverage(Num(Contributions("conditionals")),
                    Num(Contributions("coveredConditionals")))

(***************************************************************************)
(* Number arithmetic (IEEE 754 binary64) of the comparisons made by filter *)
(* and checkThreshold.  A finite double is sign * m * 2^e, with m a        *)
(* sequence of bits, most significant first and without leading zeros (the *)
(* empty sequence is 0), of at most Precision bits.                        *)
(***************************************************************************)
Precision == 53

\* bits without its leading zeros
Strip(bits) ==
  IF \A i \in 1..Len(bits) : bits[i] = 0 THEN <<>>
  ELSE SubSeq(bits, CHOOSE i \in 1..Len(bits) :
                      bits[i] = 1 /\ \A j \in 1..(i - 1) : bits[j] = 0,
              Len(bits))

Zeros(n) == [i \in 1..n |-> 0]
Pad(bits, n) == Zeros(n - Len(bits)) \o bits

\* the w low bits of a natural n, and the bits of a natural below 2^31
FixedBits(n, w) == [i \in 1..w |-> (n \div 2^(w - i)) % 2]
BitsOf(n) == Strip(FixedBits(n, 31))

\* the carry into position i of x + y + carry, for x and y of n bits: some
\* lower position generates a carry that every position in between passes on
CarryInto(x, y, carry, n, i) ==
  \E j \in (i + 1)..(n + 1) :
    /\ IF j = n + 1 THEN carry = 1 ELSE x[j] + y[j] = 2
    /\ \A k \in (i + 1)..(j - 1) : x[k] + y[k] >= 1

\* the n + 1 bits of x + y + carry, for x and y of n bits
AddPadded(x, y, carry, n) ==
  [i \in 1..(n + 1) |->
     IF i = 1 THEN (IF CarryInto(x, y, carry, n, 0) THEN 1 ELSE 0)
     ELSE (x[i - 1] + y[i - 1]
             + (IF CarryInto(x, y, carry, n, i - 1) THEN 1 ELSE 0)) % 2]

Longer(a, b) == IF Len(a) > Len(b) THEN Len(a) ELSE Len(b)

\* a + b + carry
BitsAdd(a, b, carry) ==
  Strip(AddPadded(Pad(a, Longer(a, b)), Pad(b, Longer(a, b)), carry, Longer(a, b)))

\* a - b for a >= b: a plus the complement of b plus one, without the top bit
Complement(bits) == [i \in 1..Len(bits) |-> 1 - bits[i]]
BitsSub(a, b) ==
  Strip(Tail(AddPadded(a, Complement(Pad(b, Len(a))), 1, Len(a))))

\* a < b for bit sequences without leading zeros
BitsLess(a, b) ==
  IF Len(a) # Len(b) THEN Len(a) < Len(b)
  ELSE \E i \in 1..Len(a) : a[i] < b[i] /\ \A j \in 1..(i - 1) : a[j] = b[j]

\* round to nearest, ties to even: bits * 2^e, plus a non-zero rest below the
\* last bit when sticky holds
RoundBits(bits, e, sticky) ==
  IF Len(bits) <= Precision THEN [m |-> bits, e |-> e]
  ELSE LET kept == SubSeq(bits, 1, Precision)
           guard == bits[Precision + 1]
           rest == sticky \/ \E i \in (Precision + 2)..Len(bits) : bits[i] = 1
           up == guard = 1 /\ (rest \/ Last(kept) = 1)
           m == IF up THEN BitsAdd(kept, <<>>, 1) ELSE kept
           shift == Len(bits) - Precision
       IN  IF Len(m) > Precision THEN [m |-> Front(m), e |-> e + shift + 1]
           ELSE [m |-> m, e |-> e + shift]

\* the integer part of k / d followed by the bits of r / d after the binary
\* point, sixteen at a time (d < 2^15), until Precision + 2 significant bits
\* are known or the division ends
RECURSIVE DivBits(_, _, _)
DivBits(r, d, bits) ==
  IF r = 0 \/ Len(Strip(bits)) >= Precision + 2 THEN [bits |-> bits, r |-> r]
  ELSE DivBits((65536 * r) % d, d, bits \o FixedBits((65536 * r) \div d, 16))

\* the double nearest to k / d, k >= 0 and d > 0
Quotient(k, d) ==
  LET q == DivBits(k % d, d, BitsOf(k \div d))
  IN  RoundBits(Strip(q.bits), Len(BitsOf(k \div d)) - Len(q.bits), q.r # 0)

\* x * n for a double x >= 0 and a natural n
RECURSIVE BitsTimes(_, _)
BitsTimes(bits, n) ==
  IF n = 0 THEN <<>>
  ELSE IF n % 2 = 1 THEN BitsAdd(Strip(BitsTimes(bits, n \div 2) \o <<0>>), bits, 0)
  ELSE Strip(BitsTimes(bits, n \div 2) \o <<0>>)

Times(x, n) == RoundBits(BitsTimes(x.m, n), x.e, FALSE)

\* the bits of x and of y at the smaller of the two exponents
Aligned(x, y) ==
  LET e == IF x.e < y.e THEN x.e ELSE y.e
  IN  [x |-> IF x.m = <<>> THEN <<>> ELSE x.m \o Zeros(x.e - e),
       y |-> IF y.m = <<>> THEN <<>> ELSE y.m \o Zeros(y.e - e),
       e |-> e]

\* x < y and x - y for doubles x, y >= 0; the difference carries its sign
DoubleLess(x, y) == BitsLess(Aligned(x, y).x, Aligned(x, y).y)

Minus(x, y) ==
  LET a == Aligned(x, y)
      negative == BitsLess(a.x, a.y)
      d == IF negative THEN BitsSub(a.y, a.x) ELSE BitsSub(a.x, a.y)
      r == RoundBits(d, a.e, FALSE)
  IN  [m |-> r.m, e |-> r.e, negative |-> negative]

\* the double of a natural below 2^Precision
Natural(n) == [m |-> BitsOf(n), e |-> 0]

\* the double stored in percentual for the fraction k / Scale, k >= 0
Fraction(k) == Quotient(k, Scale)

\* the fractions of the reports below, in units of 1 / Scale
FractionSamples == {0, 5000, 5700, 8000, 8500, 9000, 10000, 20000}

\* percentual * 100 and (a - b) * 100 for percentuals k, a, b >= 0 in units
\* of 1 / Scale; the results for the sampled fractions are computed once
TimesHundred(k) == Times(Fraction(k), 100)
DifferenceTimesHundred(a, b) ==
  [m |-> Times(Minus(Fraction(a), Fraction(b)), 100).m,
   e |-> Times(Minus(Fraction(a), Fraction(b)), 100).e,
   negative |-> Minus(Fraction(a), Fraction(b)).negative]

\* a function with its values computed, which the comparison requires
Computed(f) == IF f = f THEN f ELSE f

PercentTable == Computed([k \in FractionSamples |-> TimesHundred(k)])
DifferenceTable ==
  Computed([p \in FractionSamples \X FractionSamples |->
              DifferenceTimesHundred(p[1], p[2])])

Percent(k) == IF k \in FractionSamples THEN PercentTable[k] ELSE TimesHundred(k)
Difference(a, b) ==
  IF a \in FractionSamples /\ b \in FractionSamples THEN DifferenceTable[<<a, b>>]
  ELSE DifferenceTimesHundred(a, b)

(***************************************************************************)
(* filter and comment (main module)                                        *)
(***************************************************************************)
\* between(v, min, max) with v = percentual * 100: min <= (v || 0) &&
\* (v || 0) <= max, a NaN percentual giving 0
between(percentual, min, max) ==
  LET v == IF IsNum(percentual) THEN Percent(percentual.n) ELSE Natural(0)
  IN  ~DoubleLess(v, Natural(min)) /\ ~DoubleLess(Natural(max), v)

\* Stats.get(folder, file): undefined without the folder, null without the
\* file, both falsy
StatsGet(o, folder, file) ==
  IF MapHas(o.folders, folder)
  THEN FolderGet(o.folders[MapIndex(o.folders, folder)].value, file)
  ELSE NullFile

\* which filters are pushed
RangeActive(onlyBetween) ==
  onlyBetween.type # "" /\ (onlyBetween.min > 0 \/ onlyBetween.max < 100)
DeltaActive(onlyBetween, o) ==
  onlyBetween.type # "" /\ onlyBetween.delta > 0 /\ o.kind # "null"

\* the default of the last parameter, o: Stats = null, which an undefined
\* argument takes
DefaultNull(o) == IF o.kind = "undefined" THEN [kind |-> "null"] ELSE o
NoFilters(onlyWith, onlyBetween, o) ==
  /\ ~onlyWith.cover
  /\ ~onlyWith.coverableLines
  /\ ~RangeActive(onlyBetween)
  /\ ~DeltaActive(onlyBetween, o)

\* mutant: the coverage filter reads the line total
PassesFirstByTotal(f, onlyWith, onlyBetween) ==
  /\ onlyWith.cover => f.metrics.lines.total # Num(0)
  /\ onlyWith.coverableLines => f.metrics.lines.total # Num(0)
  /\ RangeActive(onlyBetween) =>
       between(f.metrics[onlyBetween.type].percentual, onlyBetween.min,
               onlyBetween.max)

\* the filters pushed before the delta filter, in conjunction
PassesFirst(f, onlyWith, onlyBetween) ==
  /\ onlyWith.cover => f.metrics.lines.covered # Num(0)
  /\ onlyWith.coverableLines => f.metrics.lines.total # Num(0)
  /\ RangeActive(onlyBetween) =>
       between(f.metrics[onlyBetween.type].percentual, onlyBetween.min,
               onlyBetween.max)

\* the delta filter: !of || Math.abs(now - then) * 100 > delta
PassesDelta(f, folder, onlyBetween, o) ==
  LET of == StatsGet(o, folder, f.name)
      now == f.metrics[onlyBetween.type].percentual
      then == of.metrics[onlyBetween.type].percentual
  IN  \/ of.isNull
      \/ /\ IsNum(now) /\ IsNum(then)
         /\ DoubleLess(Natural(onlyBetween.delta), Difference(now.n, then.n))

\* filters.reduce((r, fn) => r && fn(f, key), true)
Passes(f, folder, onlyWith, onlyBetween, o) ==
  /\ PassesFirst(f, onlyWith, onlyBetween)
  /\ DeltaActive(onlyBetween, o) => PassesDelta(f, folder, onlyBetween, o)

\* mutant: a removal skips the file that follows the removed one
RECURSIVE KeepFilesSkipping(_, _, _, _, _)
KeepFilesSkipping(files, folder, onlyWith, onlyBetween, o) ==
  IF files = <<>> THEN <<>>
  ELSE IF Passes(Head(files), folder, onlyWith, onlyBetween, o)
  THEN <<Head(files)>>
         \o KeepFilesSkipping(Tail(files), folder, onlyWith, onlyBetween, o)
  ELSE IF Tail(files) = <<>> THEN <<>>
  ELSE <<Head(Tail(files))>>
         \o KeepFilesSkipping(Tail(Tail(files)), folder, onlyWith, onlyBetween, o)

\* mutant: the files that pass are collected in front of the earlier ones
RECURSIVE KeepFilesReversed(_, _, _, _, _)
KeepFilesReversed(files, folder, onlyWith, onlyBetween, o) ==
  IF files = <<>> THEN <<>>
  ELSE KeepFilesReversed(Tail(files), folder, onlyWith, onlyBetween, o)
         \o (IF Passes(Head(files), folder, onlyWith, onlyBetween, o)
             THEN <<Head(files)>> ELSE <<>>)

\* folder.files.filter(...)
RECURSIVE KeepFiles(_, _, _, _, _)
KeepFiles(files, folder, onlyWith, onlyBetween, o) ==
  IF files = <<>> THEN <<>>
  ELSE (IF Passes(Head(files), folder, onlyWith, onlyBetween, o)
        THEN <<Head(files)>> ELSE <<>>)
         \o KeepFiles(Tail(files), folder, onlyWith, onlyBetween, o)

\* s.folders.forEach(...): every folder keeps the files that pass and is
\* deleted when none is left
RECURSIVE FilterFolders(_, _, _, _)
FilterFolders(folders, onlyWith, onlyBetween, o) ==
  IF folders = <<>> THEN [thrown |-> FALSE, folders |-> <<>>]
  ELSE LET kept == KeepFiles(Head(folders).value.files, Head(folders).key,
                             onlyWith, onlyBetween, o)
           rest == FilterFolders(Tail(folders), onlyWith, onlyBetween, o)
       IN  [thrown |-> rest.thrown,
            folders |->
              (IF kept = <<>> THEN <<>>
               ELSE <<[Head(folders) EXCEPT !.value.files = kept]>>)
                \o rest.folders]

\* filter(s, onlyWith, onlyBetween, o): s.folders after the call; no step of
\* it throws for a Stats s and a null, undefined or Stats baseline
filter(s, onlyWith, onlyBetween, o) ==
  IF NoFilters(onlyWith, onlyBetween, DefaultNull(o))
  THEN [thrown |-> FALSE, folders |-> s.folders]
  ELSE FilterFolders(s.folders, onlyWith, onlyBetween, DefaultNull(o))

\* the first statement of comment: every folder name loses the workspace prefix
NormalizeFolderNames(folders, w) ==
  [i \in 1..Len(folders) |->
     [folders[i] EXCEPT !.value.name = StripWorkspace(@, w)]]

\* the arguments comment hands to filter
OnlyWith ==
  [cover |-> inputs.onlyWithCover, coverableLines |-> inputs.onlyWithCoverableLines]
OnlyBetween ==
  [type |-> inputs.tableWithTypeLimit, min |-> inputs.tableWithOnlyAbove,
   max |-> inputs.tableWithOnlyBellow, delta |-> inputs.tableWithChangeAbove]

\* comment(cStats, oldStats, ...): the folder names are normalized and filter
\* changes cStats in place; run calls it again on the same object
Comment ==
  /\ pc \in {"parsed", "commented"}
  /\ ~thrown
  /\ \E r \in {filter([stats EXCEPT
                         !.folders = NormalizeFolderNames(@, WorkspacePrefix)],
                      OnlyWith, OnlyBetween, oldStats)} :
       /\ stats' = [stats EXCEPT !.folders = r.folders]
       /\ thrown' = r.thrown
  /\ pc' = IF pc = "parsed" THEN "commented" ELSE "recommented"
  /\ UNCHANGED <<argTotal, argCovered, ratio, project, pullRequestFiles, workspace,
                 oldStats, inputs, msgs,
                 rendered, requests, userFilter, commentId>>

NextFilter == Comment

(***************************************************************************)
(* Filtering: a report of two files, a baseline, and the table inputs      *)
(***************************************************************************)
\* a metrics node with statement and method counts
Counts(st, cst, me, cme) == Attributes(st, cst, me, cme, 0, 0)

\* a metrics node without the statements attribute
CountsWithoutStatements ==
  [Counts(0, 1, 1, 1) EXCEPT !.statements = Undefined]

FirstFileMetrics ==
  {Counts(100, 57, 100, 90), Counts(100, 85, 100, 100), Counts(100, 90, 100, 85),
   Counts(100, 0, 0, 0), Counts(0, 0, 0, 0), Counts(1, 2, 1, 1),
   CountsWithoutStatements}
SecondFileMetrics ==
  {Counts(100, 90, 100, 57), Counts(100, 0, 100, 0), Counts(100, 85, 100, 85)}
BaselineFileMetrics ==
  {Counts(100, 85, 100, 85), Counts(100, 90, 100, 90), Counts(100, 57, 100, 57)}

\* "/w/src/a", "/w/src/b", "/w/lib/b", "/w/src/z"
FileA == <<Slash, 119, Slash, 115, 114, 99, Slash, 97>>
FileB == <<Slash, 119, Slash, 115, 114, 99, Slash, 98>>
FileLibB == <<Slash, 119, Slash, 108, 105, 98, Slash, 98>>
FileZ == <<Slash, 119, Slash, 115, 114, 99, Slash, 122>>

\* the Stats that fromString returns for a report
StatsOf(report, ws) ==
  [kind |-> "stats", total |-> fromString(report, <<>>, ws).total,
   folders |-> fromString(report, <<>>, ws).folders]

NullStats == [kind |-> "null"]
UndefinedStats == [kind |-> "undefined"]

\* the baseline: null, undefined, or the Stats of a report with one file
Baselines(ws) ==
  {NullStats, UndefinedStats}
    \cup {StatsOf(ProjectNode(Counts(100, 85, 100, 85),
                              <<FileNode(FileA, Undefined, m, <<>>)>>, 0), ws) :
            m \in BaselineFileMetrics}
    \cup {StatsOf(ProjectNode(Counts(100, 85, 100, 85),
                              <<FileNode(FileZ, Undefined, Counts(100, 85, 100, 85),
                                         <<>>)>>, 0), ws)}

TableInputs ==
  {[onlyWithCover |-> c, onlyWithCoverableLines |-> l, tableWithTypeLimit |-> t,
    tableWithOnlyAbove |-> r[1], tableWithOnlyBellow |-> r[2],
    tableWithChangeAbove |-> d,
    minLineCoverage |-> Number(Str(<<>>)), minMethodCoverage |-> Number(Str(<<>>)),
    maxLineCoverageDecrease |-> <<>>, maxMethodCoverageDecrease |-> <<>>] :
     c \in BOOLEAN, l \in BOOLEAN, t \in {"lines", "methods"},
     r \in {<<0, 100>>, <<57, 100>>, <<0, 85>>}, d \in {0, 5}}

InitFilter ==
  /\ pc = "parsed"
  /\ workspace = <<Slash, 119>>
  /\ pullRequestFiles = <<>>
  /\ \E a \in FirstFileMetrics :
       \E b \in SecondFileMetrics :
         \E second \in {FileB, FileLibB} :
           project = ProjectNode(Counts(200, 100, 200, 100),
                                 <<FileNode(FileA, Undefined, a, <<>>),
                                   FileNode(second, Undefined, b, <<>>)>>, 0)
  /\ stats = [total |-> fromString(project, <<>>, workspace).total,
              folders |-> fromString(project, <<>>, workspace).folders]
  /\ oldStats \in Baselines(workspace)
  /\ inputs \in TableInputs
  /\ msgs = <<>>
  /\ NothingPublished
  /\ thrown = FALSE
  /\ argTotal = Undefined
  /\ argCovered = Undefined
  /\ ratio = NoRatio

SpecFilter == InitFilter /\ [][NextFilter]_vars

\* the files that fromString returned, each with the key of its folder, and
\* the files that are left
FolderFiles(folders) ==
  ConcatAll([k \in 1..Len(folders) |->
               [i \in 1..Len(folders[k].value.files) |->
                  [key |-> folders[k].key, file |-> folders[k].value.files[i]]]])
IngestedFiles == FolderFiles(fromString(project, <<>>, workspace).folders)
LeftFiles == FolderFiles(stats.folders)
Left(x) == \E i \in 1..Len(LeftFiles) : LeftFiles[i] = x

Filtered == pc \in {"commented", "recommented"} /\ ~thrown

(***************************************************************************)
(* C14: filter keeps a file iff every active predicate holds for it: with  *)
(* only-with-cover a kept file has lines.covered != 0, with                *)
(* only-with-coverable-lines a kept file has lines.total != 0; a file that *)
(* fails an active predicate is dropped, and no folder without files is    *)
(* left in the folder map.                                                 *)
(***************************************************************************)
C14_KeptIffAllActivePredicates ==
  Filtered =>
    /\ \A i \in 1..Len(IngestedFiles) :
         Left(IngestedFiles[i]) <=>
           /\ inputs.onlyWithCover =>
                IngestedFiles[i].file.metrics.lines.covered # Num(0)
           /\ inputs.onlyWithCoverableLines =>
                IngestedFiles[i].file.metrics.lines.total # Num(0)
           /\ RangeActive(OnlyBetween) =>
                between(IngestedFiles[i].file.metrics[inputs.tableWithTypeLimit].percentual,
                        inputs.tableWithOnlyAbove, inputs.tableWithOnlyBellow)
           /\ DeltaActive(OnlyBetween, DefaultNull(oldStats)) =>
                PassesDelta(IngestedFiles[i].file, IngestedFiles[i].key, OnlyBetween,
                            oldStats)
    /\ \A i \in 1..Len(LeftFiles) :
         \E j \in 1..Len(IngestedFiles) : IngestedFiles[j] = LeftFiles[i]
    /\ \A k \in 1..Len(stats.folders) : stats.folders[k].value.files # <<>>

\* both presence filters are on: one file of two folders is kept and the
\* folder of the other is gone
C14_Witness ==
  /\ Filtered
  /\ inputs.onlyWithCover /\ inputs.onlyWithCoverableLines
  /\ Len(fromString(project, <<>>, workspace).folders) = 2
  /\ Len(stats.folders) = 1
  /\ Len(LeftFiles) = 1
  /\ LeftFiles[1].file.metrics.lines.covered # Num(0)

\* the fraction of a file for the metric kind of the table, in units of
\* 1 / Scale, a NaN fraction counting as 0
FractionOf(f) ==
  IF IsNum(f.metrics[inputs.tableWithTypeLimit].percentual)
  THEN f.metrics[inputs.tableWithTypeLimit].percentual.n ELSE 0

\* only the range of the table can drop a file
OnlyRange ==
  /\ ~inputs.onlyWithCover /\ ~inputs.onlyWithCoverableLines
  /\ inputs.tableWithChangeAbove = 0

(***************************************************************************)
(* C15: with a metric kind and a range (min, max), filter keeps a file iff *)
(* min <= fraction x 100 <= max for that kind, a NaN fraction counting as  *)
(* 0, for every min, max and file ratio, fractions outside [0,1] included. *)
(***************************************************************************)
C15_KeptIffInRange ==
  (Filtered /\ OnlyRange) =>
    \A i \in 1..Len(IngestedFiles) :
      Left(IngestedFiles[i]) <=>
        /\ 100 * inputs.tableWithOnlyAbove <= FractionOf(IngestedFiles[i].file)
        /\ FractionOf(IngestedFiles[i].file) <= 100 * inputs.tableWithOnlyBellow

\* only the delta of the table can drop a file, and a baseline is given
OnlyDelta ==
  /\ ~inputs.onlyWithCover /\ ~inputs.onlyWithCoverableLines
  /\ ~RangeActive(OnlyBetween)
  /\ inputs.tableWithChangeAbove > 0
  /\ oldStats.kind = "stats"

\* the file of the baseline with the folder key and the name of x, if any
InBaseline(x) ==
  \E k \in 1..Len(oldStats.folders) :
    /\ oldStats.folders[k].key = x.key
    /\ \E j \in 1..Len(oldStats.folders[k].value.files) :
         oldStats.folders[k].value.files[j].name = x.file.name
BaselineFraction(x) ==
  LET k == CHOOSE k \in 1..Len(oldStats.folders) : oldStats.folders[k].key = x.key
      j == CHOOSE j \in 1..Len(oldStats.folders[k].value.files) :
             oldStats.folders[k].value.files[j].name = x.file.name
  IN  oldStats.folders[k].value.files[j].metrics[inputs.tableWithTypeLimit].percentual

(***************************************************************************)
(* C16: with a metric kind, a minDelta > 0 and a baseline, filter keeps a  *)
(* file iff the baseline has no file of its folder key and name, or        *)
(* |fraction_now - fraction_baseline| x 100 > minDelta, strictly: a change *)
(* of exactly minDelta is dropped.                                         *)
(***************************************************************************)
C16_KeptIffChangedMoreThanDelta ==
  (Filtered /\ OnlyDelta) =>
    \A i \in 1..Len(IngestedFiles) :
      Left(IngestedFiles[i]) <=>
        \/ ~InBaseline(IngestedFiles[i])
        \/ /\ IsNum(IngestedFiles[i].file.metrics[inputs.tableWithTypeLimit].percentual)
           /\ IsNum(BaselineFraction(IngestedFiles[i]))
           /\ Abs(FractionOf(IngestedFiles[i].file)
                    - BaselineFraction(IngestedFiles[i]).n)
                > 100 * inputs.tableWithChangeAbove

(***************************************************************************)
(* C17: filter is idempotent: the second comment on the same Stats object, *)
(* with the same inputs and baseline, leaves the folders and files that    *)
(* the first one left.                                                     *)
(***************************************************************************)
C17_FilterIdempotent == [][pc = "commented" => stats' = stats]_vars

\* the second call has run on a model from which the first dropped a file
C17_Witness ==
  /\ pc = "recommented"
  /\ ~thrown
  /\ Len(LeftFiles) = 1
  /\ Len(IngestedFiles) = 2

(***************************************************************************)
(* checkThreshold (main module)                                            *)
(***************************************************************************)
\* the checks in the order of the generator body; a message is modelled by
\* the check that yields it, its text carrying the limit and the value
MinLine == "min-line"
MinMethod == "min-method"
MaxLineDecrease == "max-line-decrease"
MaxMethodDecrease == "max-method-decrease"

\* mutant: a yielded message goes in front of the earlier ones
YieldFirst(ms, violated, m) == IF violated THEN <<m>> \o ms ELSE ms

\* if (violated) yield m
Yield(ms, violated, m) == IF violated THEN Append(ms, m) ELSE ms

\* min > percentual * 100, false when either side is NaN
BelowMinimum(min, percentual) ==
  /\ IsNum(min)
  /\ IsNum(percentual)
  /\ DoubleLess(Percent(percentual.n), Natural(min.n))

\* mutant: every limit counts as configured
ConfiguredAlways(limit) == TRUE

\* the truthiness test of a decrease limit, which is the input string
Configured(limit) == Truthy(Str(limit))

\* (then - now) * 100 >= Number(limit), false when a side is NaN
DecreaseReaches(limit, then, now) ==
  /\ IsNum(Number(Str(limit)))
  /\ IsNum(then)
  /\ IsNum(now)
  /\ ~Difference(then.n, now.n).negative
  /\ ~DoubleLess(Difference(then.n, now.n), Natural(Number(Str(limit)).n))

\* the value false, which run hands over as c when there are no changes
FalseValue == [kind |-> "false"]
IsFalse(c) == "kind" \in DOMAIN c /\ c.kind = "false"

\* the first test reads c.total.lines: the total of false is undefined, and
\* reading lines of undefined throws a TypeError out of the generator
CheckMinLine ==
  /\ pc = "minLine"
  /\ IF IsFalse(stats)
     THEN /\ thrown' = TRUE
          /\ msgs' = msgs
          /\ pc' = "failed"
     ELSE /\ thrown' = thrown
          /\ msgs' = Yield(msgs, BelowMinimum(inputs.minLineCoverage,
                                              stats.total.lines.percentual), MinLine)
          /\ pc' = "minMethod"
  /\ UNCHANGED <<argTotal, argCovered, ratio, project, pullRequestFiles, workspace,
                 stats, oldStats, inputs,
                 rendered, requests, userFilter, commentId>>

CheckMinMethod ==
  /\ pc = "minMethod"
  /\ msgs' = Yield(msgs, BelowMinimum(inputs.minMethodCoverage,
                                      stats.total.methods.percentual), MinMethod)
  /\ pc' = "baseline"
  /\ UNCHANGED <<argTotal, argCovered, ratio, project, pullRequestFiles, workspace,
                 stats, thrown, oldStats, inputs,
                 rendered, requests, userFilter, commentId>>

\* if (o === undefined) return
CheckBaseline ==
  /\ pc = "baseline"
  /\ pc' = IF oldStats.kind = "undefined" THEN "returned" ELSE "lineDecrease"
  /\ UNCHANGED <<argTotal, argCovered, ratio, project, pullRequestFiles, workspace,
                 stats, thrown, oldStats, inputs, msgs,
                 rendered, requests, userFilter, commentId>>

CheckLineDecrease ==
  /\ pc = "lineDecrease"
  /\ msgs' = Yield(msgs,
                   /\ Configured(inputs.maxLineCoverageDecrease)
                   /\ DecreaseReaches(inputs.maxLineCoverageDecrease,
                                      oldStats.total.lines.percentual,
                                      stats.total.lines.percentual),
                   MaxLineDecrease)
  /\ pc' = "methodDecrease"
  /\ UNCHANGED <<argTotal, argCovered, ratio, project, pullRequestFiles, workspace,
                 stats, thrown, oldStats, inputs,
                 rendered, requests, userFilter, commentId>>

CheckMethodDecrease ==
  /\ pc = "methodDecrease"
  /\ msgs' = Yield(msgs,
                   /\ Configured(inputs.maxMethodCoverageDecrease)
                   /\ DecreaseReaches(inputs.maxMethodCoverageDecrease,
                                      oldStats.total.methods.percentual,
                                      stats.total.methods.percentual),
                   MaxMethodDecrease)
  /\ pc' = "returned"
  /\ UNCHANGED <<argTotal, argCovered, ratio, project, pullRequestFiles, workspace,
                 stats, thrown, oldStats, inputs,
                 rendered, requests, userFilter, commentId>>

NextThreshold ==
  \/ CheckMinLine
  \/ CheckMinMethod
  \/ CheckBaseline
  \/ CheckLineDecrease
  \/ CheckMethodDecrease

(***************************************************************************)
(* Thresholds: a current report, a baseline or none, and the four limits   *)
(***************************************************************************)
\* project metrics of the current report: line and method counts
CurrentMetrics ==
  {Counts(100, l, 100, m) : l \in {57, 80, 85, 90}, m \in {57, 85, 100}}
    \cup {Counts(0, 0, 100, 57), CountsWithoutStatements}
PreviousMetrics ==
  {Counts(100, l, 100, m) : l \in {85, 90}, m \in {85, 90}}

\* a report with one file that has the metrics of the project
ReportWith(m) == ProjectNode(m, <<FileNode(FileA, Undefined, m, <<>>)>>, 0)

\* "", "0", "5", "57", "80"
NoText == <<>>
ZeroText == <<48>>
FiveText == <<53>>
FiftySevenText == <<53, 55>>
EightyText == <<56, 48>>

ThresholdInputs ==
  {[onlyWithCover |-> FALSE, onlyWithCoverableLines |-> FALSE,
    tableWithTypeLimit |-> "lines", tableWithOnlyAbove |-> 0,
    tableWithOnlyBellow |-> 100, tableWithChangeAbove |-> 0,
    minLineCoverage |-> Number(Str(a)), minMethodCoverage |-> Number(Str(b)),
    maxLineCoverageDecrease |-> c, maxMethodCoverageDecrease |-> d] :
     a \in {NoText, FiftySevenText, EightyText}, b \in {NoText, FiftySevenText},
     c \in {NoText, ZeroText, FiveText}, d \in {NoText, FiveText}}

InitThreshold ==
  /\ pc = "minLine"
  /\ workspace = <<Slash, 119>>
  /\ pullRequestFiles = <<>>
  /\ project \in {ReportWith(m) : m \in CurrentMetrics}
  /\ stats = [total |-> fromString(project, <<>>, workspace).total,
              folders |-> fromString(project, <<>>, workspace).folders]
  /\ oldStats \in {UndefinedStats}
                    \cup {StatsOf(ReportWith(m), workspace) : m \in PreviousMetrics}
  /\ inputs \in ThresholdInputs
  /\ msgs = <<>>
  /\ NothingPublished
  /\ thrown = FALSE
  /\ argTotal = Undefined
  /\ argCovered = Undefined
  /\ ratio = NoRatio

SpecThreshold == InitThreshold /\ [][NextThreshold]_vars

\* Array.from(checkThreshold(prStats, oldStats)) in run resumes the generator
\* until it returns: a generator that has not returned moves on
Positions ==
  {"minLine", "minMethod", "baseline", "lineDecrease", "methodDecrease", "returned"}
Resume == pc # "returned" /\ pc' \in Positions /\ pc' # pc
SpecThresholdLive == SpecThreshold /\ WF_pc(Resume)

\* the fixed order of the checks
CheckOrder == <<MinLine, MinMethod, MaxLineDecrease, MaxMethodDecrease>>

\* ms picks positions of q in increasing order
IsSubsequence(ms, q) ==
  \E pick \in [1..Len(ms) -> 1..Len(q)] :
    /\ \A i \in 1..Len(ms) : q[pick[i]] = ms[i]
    /\ \A i \in 1..Len(ms) : \A j \in 1..Len(ms) : i < j => pick[i] < pick[j]

Yielded(m) == \E i \in 1..Len(msgs) : msgs[i] = m

\* the generator has returned and what it yielded is in the fixed order
ReturnedInOrder ==
  /\ pc = "returned"
  /\ Len(msgs) <= 4
  /\ IsSubsequence(msgs, CheckOrder)
  /\ oldStats.kind = "undefined" =>
       ~Yielded(MaxLineDecrease) /\ ~Yielded(MaxMethodDecrease)

(***************************************************************************)
(* C18: checkThreshold, once started, returns after finitely many steps,   *)
(* and the messages it yielded are at most four and a subsequence of       *)
(* [min-line, min-method, max-line-decrease, max-method-decrease]; without *)
(* a baseline neither decrease message is among them.                      *)
(***************************************************************************)
C18_FiniteOrderedMessages == (pc = "minLine") ~> ReturnedInOrder

\* all four checks have yielded
C18_Witness == pc = "returned" /\ msgs = CheckOrder

\* the fractions of the current and the baseline totals in units of 1 / Scale
TotalFraction(s, kind) == s.total[kind].percentual

(***************************************************************************)
(* C19: a minimum check yields iff current fraction x 100 < minimum, so a  *)
(* fraction equal to the minimum passes; a regression check yields iff     *)
(* (baseline fraction - current fraction) x 100 >= maximum decrease, so a  *)
(* decrease of exactly the maximum is a violation.                         *)
(***************************************************************************)
C19_ThresholdBoundaries ==
  (pc = "returned" /\ IsNum(TotalFraction(stats, "lines"))) =>
    /\ Yielded(MinLine) <=>
         TotalFraction(stats, "lines").n < 100 * inputs.minLineCoverage.n
    /\ Yielded(MinMethod) <=>
         TotalFraction(stats, "methods").n < 100 * inputs.minMethodCoverage.n
    /\ (oldStats.kind = "stats" /\ inputs.maxLineCoverageDecrease # NoText) =>
         (Yielded(MaxLineDecrease) <=>
            TotalFraction(oldStats, "lines").n - TotalFraction(stats, "lines").n
              >= 100 * DigitsValue(inputs.maxLineCoverageDecrease))
    /\ (oldStats.kind = "stats" /\ inputs.maxMethodCoverageDecrease # NoText) =>
         (Yielded(MaxMethodDecrease) <=>
            TotalFraction(oldStats, "methods").n - TotalFraction(stats, "methods").n
              >= 100 * DigitsValue(inputs.maxMethodCoverageDecrease))

(***************************************************************************)
(* C20: a check whose limit is not configured never yields: without        *)
(* min-line-coverage or min-method-coverage there is no minimum message of *)
(* that kind, and without max-line-coverage-decrease or                    *)
(* max-method-coverage-decrease there is no decrease message of that kind. *)
(***************************************************************************)
C20_UnsetLimitNeverYields ==
  /\ inputs.minLineCoverage = Number(Str(NoText)) => ~Yielded(MinLine)
  /\ inputs.minMethodCoverage = Number(Str(NoText)) => ~Yielded(MinMethod)
  /\ inputs.maxLineCoverageDecrease = NoText => ~Yielded(MaxLineDecrease)
  /\ inputs.maxMethodCoverageDecrease = NoText => ~Yielded(MaxMethodDecrease)

\* no limit is configured, the current line coverage is 57% against a
\* baseline of 85%, and the generator has returned without a message
C20_Witness ==
  /\ pc = "returned"
  /\ inputs.minLineCoverage = Number(Str(NoText))
  /\ inputs.minMethodCoverage = Number(Str(NoText))
  /\ inputs.maxLineCoverageDecrease = NoText
  /\ inputs.maxMethodCoverageDecrease = NoText
  /\ oldStats.kind = "stats"
  /\ TotalFraction(oldStats, "lines") = Num(8500)
  /\ TotalFraction(stats, "lines") = Num(5700)
  /\ msgs = <<>>

(***************************************************************************)
(* C26: with a change set and explicit line ranges, what a file            *)
(* contributes never exceeds its reported counts: the estimated            *)
(* statements, methods and conditionals are each <= the statements,        *)
(* methods and conditionals of the file, and each estimated covered count  *)
(* is <= its estimated total.                                              *)
(***************************************************************************)
C26_EstimatesWithinReportedCounts ==
  (pc = "parsed" /\ Len(pullRequestFiles) > 0 /\ EntriesCarryLines /\ ~thrown) =>
    \A j \in Touched :
      /\ Contribution(j, "statements") <= Number(ReportFiles[j].metrics.statements).n
      /\ Contribution(j, "methods") <= Number(ReportFiles[j].metrics.methods).n
      /\ Contribution(j, "conditionals")
           <= Number(ReportFiles[j].metrics.conditionals).n
      /\ Contribution(j, "coveredStatements") <= Contribution(j, "statements")
      /\ Contribution(j, "coveredMethods") <= Contribution(j, "methods")
      /\ Contribution(j, "coveredConditionals") <= Contribution(j, "conditionals")

\* what a step may do to the model: take files and folders away
OnlyRemoves ==
  /\ stats'.total = stats.total
  /\ oldStats' = oldStats
  /\ IsSubsequence(FolderFiles(stats'.folders), FolderFiles(stats.folders))
  /\ IsSubsequence([k \in 1..Len(stats'.folders) |-> stats'.folders[k].key],
                   [k \in 1..Len(stats.folders) |-> stats.folders[k].key])
  /\ NoFilters(OnlyWith, OnlyBetween, DefaultNull(oldStats)) =>
       FolderFiles(stats'.folders) = FolderFiles(stats.folders)

(***************************************************************************)
(* C25: filter only removes: a call leaves the project totals and the      *)
(* baseline as they were, every file it leaves is a file that was there,   *)
(* unaltered and in the same relative order, folder by folder, and with no *)
(* predicate active nothing is removed.                                    *)
(***************************************************************************)
C25_FilterOnlyRemoves ==
  [][(pc # "recommented") => OnlyRemoves]_vars

\* the first of two files was dropped and the second is left as it was, under
\* unchanged totals
C25_Witness ==
  /\ pc = "commented"
  /\ Len(IngestedFiles) = 2
  /\ LeftFiles = <<IngestedFiles[2]>>
  /\ stats.total = fromString(project, <<>>, workspace).total

(***************************************************************************)
(* Malformed reports: a metrics node of the project or of a file lacks one *)
(* of the six numeric attributes                                           *)
(***************************************************************************)
AttributeNames ==
  {"statements", "coveredstatements", "methods", "coveredmethods", "conditionals",
   "coveredconditionals"}

\* the metrics node m, complete or without one attribute
WithOrWithout(m) == {m} \cup {[m EXCEPT ![a] = Undefined] : a \in AttributeNames}

InitMalformed ==
  /\ pc = "parse"
  /\ \E n \in 1..2 :
       \E total \in WithOrWithout(Attributes(20, 10, 2, 1, 4, 2)) :
         \E metrics \in [1..n -> WithOrWithout(Attributes(10, 4, 2, 1, 4, 2))] :
           project = ProjectNode(total,
                                 [j \in 1..n |->
                                    FileNode(SourceName(j), Undefined, metrics[j], <<>>)],
                                 0)
  /\ pullRequestFiles = <<>>
  /\ workspace = <<Slash, 119>>
  /\ stats = NoStats
  /\ thrown = FALSE
  /\ argTotal = Undefined
  /\ argCovered = Undefined
  /\ ratio = NoRatio
  /\ ReportOnly

SpecMalformed == InitMalformed /\ [][NextIngest]_vars

\* a metrics node of the report lacks an attribute
Lacks(m) == \E a \in AttributeNames : m[a] = Undefined
SomeAttributeMissing ==
  \/ Lacks(project.metrics)
  \/ \E j \in 1..Len(ReportFiles) : Lacks(ReportFiles[j].metrics)

\* every part of the ratio is a number
NumericRatio(r) == IsNum(r.total) /\ IsNum(r.covered) /\ IsNum(r.percentual)
NumericMetricSet(m) ==
  NumericRatio(m.lines) /\ NumericRatio(m.methods) /\ NumericRatio(m.branches)

(***************************************************************************)
(* C23: ingestion of a report in which the metrics node of the project or  *)
(* of a file lacks one of the six numeric attributes fails and returns no  *)
(* Stats; no Stats that fromString returns holds a ratio whose total,      *)
(* covered or fraction is not a number.                                    *)
(***************************************************************************)
C23_MissingAttributeFails ==
  pc = "parsed" =>
    /\ SomeAttributeMissing => thrown
    /\ ~thrown =>
         /\ NumericMetricSet(stats.total)
         /\ \A i \in 1..Len(FolderFiles(stats.folders)) :
              NumericMetricSet(FolderFiles(stats.folders)[i].file.metrics)

(***************************************************************************)
(* html (html/index.ts): the summary and the table rows.  Of the text that *)
(* is produced the model keeps, per metric, which icon was chosen:         *)
(* "equals", "increased", "decreased", "new", or "none" when the cell has  *)
(* no icon.  The rows are the ones createFolderRows hands to               *)
(* limitedFragment.                                                        *)
(***************************************************************************)
\* a == b and a < b for numbers, false when one of them is NaN
LooseEquals(a, b) == IsNum(a) /\ IsNum(b) /\ a.n = b.n
LessThan(a, b) == IsNum(a) /\ IsNum(b) /\ a.n < b.n

\* compare(n, o, lang, showDelta, icons): the icon of the span
compare(n, o) ==
  IF LooseEquals(n.percentual, o.percentual) THEN "equals"
  ELSE IF LessThan(n.percentual, o.percentual) THEN "decreased"
  ELSE "increased"

\* compareFile(n, o, lang, icons), o being null or a Coverage
compareFile(n, o, isNull) == IF isNull THEN "new" ELSE compare(n, o)

\* the metrics that are displayed
MetricKeys(showBranchesColumn) ==
  IF showBranchesColumn THEN <<"lines", "methods", "branches">>
  ELSE <<"lines", "methods">>

\* line(name, m, lang, icons, o, showDelta, showBranchesColumn, file): one
\* cell per metric; o is the metrics of the baseline file, null by default
\* when the baseline has no such file, and a metrics object holds a Coverage
\* under every key
line(folderKey, f, of, showDelta, showBranchesColumn) ==
  [i \in 1..Len(MetricKeys(showBranchesColumn)) |->
     LET metricKey == MetricKeys(showBranchesColumn)[i]
     IN  [folder |-> folderKey, file |-> f.name, metric |-> metricKey,
          icon |-> IF showDelta /\ ~of.isNull
                   THEN compareFile(f.metrics[metricKey], of.metrics[metricKey], FALSE)
                   ELSE "none"]]

\* o?.get(folderKey, f.name)
BaselineFile(o, folderKey, name) ==
  IF o.kind = "stats" THEN StatsGet(o, folderKey, name) ELSE NullFile

\* createFolderRows for every folder of c, in the order of the map
createFolderRows(c, o, showDelta, showBranchesColumn) ==
  ConcatAll([k \in 1..Len(c.folders) |->
    ConcatAll([j \in 1..Len(c.folders[k].value.files) |->
      line(c.folders[k].key, c.folders[k].value.files[j],
           BaselineFile(o, c.folders[k].key, c.folders[k].value.files[j].name),
           showDelta, showBranchesColumn)])])

\* total(name, icons, c, oldC) for every displayed metric: nothing for a
\* total that is not > 0, no icon without a baseline
createSummaryText(c, o, showBranchesColumn) ==
  ConcatAll([i \in 1..Len(MetricKeys(showBranchesColumn)) |->
    LET metricKey == MetricKeys(showBranchesColumn)[i]
        t == c.total[metricKey]
    IN  IF IsNum(t.total) /\ t.total.n > 0
        THEN <<[metric |-> metricKey,
                icon |-> IF o.kind = "stats" THEN compare(t, o.total[metricKey])
                         ELSE "none"]>>
        ELSE <<>>])

\* html(c, o, configs)
html(c, o, configs) ==
  [summary |-> createSummaryText(c, DefaultNull(o), configs.showBranchesColumn),
   rows |-> IF configs.withTable
            THEN createFolderRows(c, DefaultNull(o), configs.deltaPerFile,
                                  configs.showBranchesColumn)
            ELSE <<>>]

Html ==
  /\ pc = "parsed"
  /\ rendered' = html(stats, oldStats, inputs)
  /\ pc' = "rendered"
  /\ UNCHANGED <<argTotal, argCovered, ratio, project, pullRequestFiles, workspace,
                 stats, thrown, oldStats, inputs, msgs, requests, userFilter, commentId>>

NextRender == Html

(***************************************************************************)
(* Rendering: a report of two files, a baseline, and the table switches    *)
(***************************************************************************)
RenderInputs ==
  {[withTable |-> t, deltaPerFile |-> d, showBranchesColumn |-> b] :
     t \in BOOLEAN, d \in BOOLEAN, b \in BOOLEAN}

InitRender ==
  /\ pc = "parsed"
  /\ workspace = <<Slash, 119>>
  /\ pullRequestFiles = <<>>
  /\ \E a \in FirstFileMetrics :
       \E b \in SecondFileMetrics :
         \E second \in {FileB, FileLibB} :
           project = ProjectNode(Counts(200, 100, 200, 100),
                                 <<FileNode(FileA, Undefined, a, <<>>),
                                   FileNode(second, Undefined, b, <<>>)>>, 0)
  /\ stats = [total |-> fromString(project, <<>>, workspace).total,
              folders |-> fromString(project, <<>>, workspace).folders]
  /\ oldStats \in Baselines(workspace)
  /\ inputs \in RenderInputs
  /\ msgs = <<>>
  /\ NothingPublished
  /\ thrown = FALSE
  /\ argTotal = Undefined
  /\ argCovered = Undefined
  /\ ratio = NoRatio

SpecRender == InitRender /\ [][NextRender]_vars

\* the file of the current stats that a row is about, and whether the
\* baseline has a file of its folder key and name
RowFile(row) ==
  LET x == CHOOSE i \in 1..Len(LeftFiles) :
             LeftFiles[i].key = row.folder /\ LeftFiles[i].file.name = row.file
  IN  LeftFiles[x]
PerFileComparison ==
  /\ pc = "rendered"
  /\ inputs.withTable
  /\ inputs.deltaPerFile
  /\ oldStats.kind = "stats"

(***************************************************************************)
(* C21: with the per-file comparison against a baseline enabled, a file of *)
(* the current stats that has no file of its folder key and name in the    *)
(* baseline is shown with the new-file icon for every displayed metric,    *)
(* never as increased, decreased or equal.                                 *)
(***************************************************************************)
C21_AbsentFromBaselineIsNew ==
  PerFileComparison =>
    /\ Len(rendered.rows) = Len(LeftFiles) * Len(MetricKeys(inputs.showBranchesColumn))
    /\ \A i \in 1..Len(rendered.rows) :
         ~InBaseline(RowFile(rendered.rows[i])) => rendered.rows[i].icon = "new"

\* the fraction of a ratio is a number and equal to, above or below another
FractionEqual(n, o) ==
  IsNum(n.percentual) /\ IsNum(o.percentual) /\ n.percentual.n = o.percentual.n
FractionAbove(n, o) ==
  IsNum(n.percentual) /\ IsNum(o.percentual) /\ n.percentual.n > o.percentual.n

\* the icon with increased and decreased exchanged
Exchanged(icon) ==
  CASE icon = "increased" -> "decreased"
    [] icon = "decreased" -> "increased"
    [] OTHER -> icon

\* the claim about one comparison of a current ratio n with a baseline o
ClassifiedByFraction(icon, n, o) ==
  /\ icon \in {"equals", "increased", "decreased"}
  /\ icon = "equals" <=> FractionEqual(n, o)
  /\ icon = "increased" <=> FractionAbove(n, o)
  /\ icon = "decreased" <=> FractionAbove(o, n)
  /\ compare(o, n) = Exchanged(icon)

(***************************************************************************)
(* C22: comparing a current ratio n with a baseline ratio o gives equal    *)
(* iff the fractions are equal, increased iff the fraction of n is above   *)
(* that of o, decreased iff it is below; exactly one of the three applies, *)
(* and with the arguments swapped increased and decreased are exchanged    *)
(* and equal stays.                                                        *)
(***************************************************************************)
C22_ClassifiedByFraction ==
  PerFileComparison =>
    \A i \in 1..Len(rendered.rows) :
      InBaseline(RowFile(rendered.rows[i])) =>
        ClassifiedByFraction(
          rendered.rows[i].icon,
          RowFile(rendered.rows[i]).file.metrics[rendered.rows[i].metric],
          StatsGet(oldStats, rendered.rows[i].folder,
                   rendered.rows[i].file).metrics[rendered.rows[i].metric])

(***************************************************************************)
(* limitedFragment (html/index.ts): strings are sequences of code units,   *)
(* the children are strings (createTableBody passes the rows), so their    *)
(* toString gives the string itself.                                       *)
(***************************************************************************)
MaxLimit == 8
MaxChildren == 3
MaxChild == 3

\* the loop over the children from the i-th on, with the space that is left
\* and the text (html in the source) so far
RECURSIVE FragmentLoop(_, _, _, _, _)
FragmentLoop(limit, noSpaceLeft, text, children, i) ==
  IF i > Len(children) THEN text
  ELSE IF Len(children[i]) > limit THEN text \o noSpaceLeft
  ELSE FragmentLoop(limit - Len(children[i]), noSpaceLeft, text \o children[i],
                    children, i + 1)

\* mutant: no space is kept for noSpaceLeft
limitedFragmentUnreserved(limit, noSpaceLeft, children) ==
  FragmentLoop(limit, noSpaceLeft, <<>>, children, 1)

\* limitedFragment(limit, noSpaceLeft, ...children)
limitedFragment(limit, noSpaceLeft, children) ==
  FragmentLoop(limit - Len(noSpaceLeft), noSpaceLeft, <<>>, children, 1)

LimitedFragment ==
  /\ pc = "called"
  /\ rendered' = limitedFragment(inputs.limit, inputs.noSpaceLeft, inputs.children)
  /\ pc' = "returned"
  /\ UNCHANGED <<argTotal, argCovered, ratio, project, pullRequestFiles, workspace,
                 stats, thrown, oldStats, inputs, msgs, requests, userFilter, commentId>>

NextFragment == LimitedFragment

\* a string of n code units c
Repeated(c, n) == [j \in 1..n |-> c]

\* the i-th child is made of the i-th lower-case letter, noSpaceLeft of "#"
InitFragment ==
  /\ pc = "called"
  /\ \E limit \in 0..MaxLimit :
       \E m \in 0..MaxChild :
         \E n \in 0..MaxChildren :
           \E lengths \in [1..n -> 0..MaxChild] :
             inputs = [limit |-> limit,
                       noSpaceLeft |-> Repeated(35, m),
                       children |-> [i \in 1..n |-> Repeated(96 + i, lengths[i])]]
  /\ rendered = <<>>
  /\ requests = <<>>
  /\ userFilter = "none"
  /\ commentId = 0
  /\ msgs = <<>>
  /\ oldStats = NoStats
  /\ stats = NoStats
  /\ project = NoProject
  /\ pullRequestFiles = <<>>
  /\ workspace = <<>>
  /\ thrown = FALSE
  /\ argTotal = Undefined
  /\ argCovered = Undefined
  /\ ratio = NoRatio

SpecFragment == InitFragment /\ [][NextFragment]_vars

\* the first k children, and whether they fit: their lengths together are
\* within the limit less the length of noSpaceLeft
FirstChildren(k) == ConcatAll(SubSeq(inputs.children, 1, k))
Fits(k) == Len(FirstChildren(k)) <= inputs.limit - Len(inputs.noSpaceLeft)
AllFit == \A k \in 1..Len(inputs.children) : Fits(k)
\* the number of children before the first one that does not fit
LongestFitting == CHOOSE k \in 0..Len(inputs.children) - 1 :
                    /\ ~Fits(k + 1)
                    /\ \A j \in 1..k : Fits(j)

(***************************************************************************)
(* C28: limitedFragment returns the concatenation of all children when     *)
(* they all fit, and otherwise the concatenation of the longest prefix of  *)
(* children that fits followed by noSpaceLeft, so no child after the first *)
(* one that does not fit is included; when noSpaceLeft.length <= limit the *)
(* length of the result does not exceed limit.                             *)
(***************************************************************************)
C28_LimitedFragment ==
  pc = "returned" =>
    /\ rendered = IF AllFit THEN FirstChildren(Len(inputs.children))
                  ELSE FirstChildren(LongestFitting) \o inputs.noSpaceLeft
    /\ Len(inputs.noSpaceLeft) <= inputs.limit => Len(rendered) <= inputs.limit

\* two children of 2 and 3 units and a third of 1, limit 5, noSpaceLeft of
\* 1: the first fits, the second does not, the third is left out although
\* it alone would fit
C28_Witness ==
  /\ pc = "returned"
  /\ inputs.limit = 5
  /\ Len(inputs.noSpaceLeft) = 1
  /\ Len(inputs.children) = 3
  /\ Len(inputs.children[1]) = 2
  /\ Len(inputs.children[2]) = 3
  /\ Len(inputs.children[3]) = 1
  /\ rendered = <<97, 97, 35>>

(***************************************************************************)
(* run (part_000), from the pull-request changes to the threshold          *)
(* messages: the current report has been read, the changes are fetched,    *)
(* the report is read again with the changes, and checkThreshold runs on   *)
(* the result.                                                             *)
(***************************************************************************)
\* what getPullRequestChanges can return for a report with one file: [] (no
\* client, a response that is not a string, an error, or no file with
\* hunks), or an entry with the hunks of the file
ChangeLists ==
  {<<>>,
   <<ObjectEntry(SourceName(1), <<HunkLine(1, 2)>>)>>,
   <<ObjectEntry(SourceName(1), <<HunkLine(1, 3), HunkLine(9, 2)>>)>>}

\* const changes = await getPullRequestChanges()
GetPullRequestChanges ==
  /\ pc = "changes"
  /\ pullRequestFiles' \in ChangeLists
  /\ pc' = "prStats"
  /\ UNCHANGED <<argTotal, argCovered, ratio, project, workspace, stats, thrown,
                 oldStats, inputs, msgs, rendered, requests, userFilter, commentId>>

\* const prStats = (changes.length > 0) && fromString(..., changes)
ParsePullRequest ==
  /\ pc = "prStats"
  /\ IF Len(pullRequestFiles) > 0
     THEN \E r \in {fromString(project, pullRequestFiles, workspace)} :
            /\ stats' = [total |-> r.total, folders |-> r.folders]
            /\ thrown' = r.thrown
            /\ pc' = IF r.thrown THEN "failed" ELSE "minLine"
     ELSE /\ stats' = FalseValue
          /\ thrown' = thrown
          /\ pc' = "minLine"
  /\ UNCHANGED <<argTotal, argCovered, ratio, project, pullRequestFiles, workspace,
                 oldStats, inputs, msgs, rendered, requests, userFilter, commentId>>

NextRun ==
  \/ GetPullRequestChanges
  \/ ParsePullRequest
  \/ NextThreshold

InitRun ==
  /\ pc = "changes"
  /\ workspace = <<Slash, 119>>
  /\ pullRequestFiles = <<>>
  /\ project \in {ReportWith(Counts(100, l, 100, 85)) : l \in {57, 90}}
  /\ stats = NoStats
  /\ oldStats \in {UndefinedStats, StatsOf(ReportWith(Counts(100, 90, 100, 90)), workspace)}
  /\ inputs \in ThresholdInputs
  /\ msgs = <<>>
  /\ NothingPublished
  /\ thrown = FALSE
  /\ argTotal = Undefined
  /\ argCovered = Undefined
  /\ ratio = NoRatio

SpecRun == InitRun /\ [][NextRun]_vars

(***************************************************************************)
(* C24: when the list of pull-request changes is empty, run still gives    *)
(* checkThreshold a constructed Stats and evaluates the thresholds without *)
(* raising an error.                                                       *)
(***************************************************************************)
C24_EmptyChangesEvaluated ==
  (pullRequestFiles = <<>> /\ pc \notin {"changes", "prStats"}) =>
    /\ ~IsFalse(stats)
    /\ ~thrown
    /\ pc # "failed"

(***************************************************************************)
(* run (part_000), publishing the comment: requests is the log of the      *)
(* calls of updateComment and createComment, each with whether it          *)
(* succeeded; whether a call of the GitHub client succeeds is not decided  *)
(* by the program.                                                         *)
(***************************************************************************)
MaxComments == 2

\* the signature, "<s>", and the login of the authenticated user, "me"
signature == <<60, 115, 62>>
Login == <<109, 101>>

\* c?.user?.type === "Bot", or c?.user?.login === u.data.login
PassesFilter(which, c) ==
  IF which = "login" THEN c.login = Login ELSE c.type = "Bot"

\* the comments that pass the filter and whose body includes the signature;
\* a comment without a body is skipped
Matching(which, comments) ==
  {i \in 1..Len(comments) :
     /\ PassesFilter(which, comments[i])
     /\ comments[i].body.t = "string"
     /\ Includes(comments[i].body.s, signature)}

\* the loop runs from the last comment to the first and assigns at every
\* match, so that the id of the first match is the one that is left
FindCommentId(which, comments) ==
  IF Matching(which, comments) = {} THEN 0
  ELSE comments[CHOOSE i \in Matching(which, comments) :
                  \A j \in Matching(which, comments) : i <= j].id

Request(call, id, ok) == [call |-> call, id |-> id, ok |-> ok]

\* if (context.eventName !== "pull_request") return
CheckEvent ==
  /\ pc = "event"
  /\ pc' = IF inputs.eventName # "pull_request" THEN "done" ELSE "fork"
  /\ UNCHANGED <<argTotal, argCovered, ratio, project, pullRequestFiles, workspace,
                 stats, thrown, oldStats, inputs, msgs, rendered, requests,
                 userFilter, commentId>>

\* if (skipCommentOnForks && isFork) return; then the default filter
CheckFork ==
  /\ pc = "fork"
  /\ IF inputs.skipCommentOnForks /\ inputs.isFork
     THEN pc' = "done" /\ userFilter' = userFilter
     ELSE pc' = "authenticate" /\ userFilter' = "Bot"
  /\ UNCHANGED <<argTotal, argCovered, ratio, project, pullRequestFiles, workspace,
                 stats, thrown, oldStats, inputs, msgs, rendered, requests,
                 commentId>>

\* getAuthenticated: on success the filter is by login, on failure it stays
GetAuthenticated ==
  /\ pc = "authenticate"
  /\ \E ok \in BOOLEAN : userFilter' = IF ok THEN "login" ELSE userFilter
  /\ pc' = "list"
  /\ UNCHANGED <<argTotal, argCovered, ratio, project, pullRequestFiles, workspace,
                 stats, thrown, oldStats, inputs, msgs, rendered, requests,
                 commentId>>

\* let commentId = null; listComments, filter and loop; on failure the id
\* stays null
ListComments ==
  /\ pc = "list"
  /\ \E ok \in BOOLEAN :
       commentId' = IF ok THEN FindCommentId(userFilter, inputs.comments) ELSE 0
  /\ pc' = "update"
  /\ UNCHANGED <<argTotal, argCovered, ratio, project, pullRequestFiles, workspace,
                 stats, thrown, oldStats, inputs, msgs, rendered, requests,
                 userFilter>>

\* mutant: no return after the update
UpdateCommentWithoutReturn ==
  /\ pc = "update"
  /\ IF commentId # 0
     THEN \E ok \in BOOLEAN :
            requests' = Append(requests, Request("updateComment", commentId, ok))
     ELSE requests' = requests
  /\ pc' = "create"
  /\ UNCHANGED <<argTotal, argCovered, ratio, project, pullRequestFiles, workspace,
                 stats, thrown, oldStats, inputs, msgs, rendered,
                 userFilter, commentId>>

\* if (commentId) { try { await updateComment; return } catch { debug } }
UpdateComment ==
  /\ pc = "update"
  /\ IF commentId # 0
     THEN \E ok \in BOOLEAN :
            /\ requests' = Append(requests, Request("updateComment", commentId, ok))
            /\ pc' = IF ok THEN "done" ELSE "create"
     ELSE /\ requests' = requests
          /\ pc' = "create"
  /\ UNCHANGED <<argTotal, argCovered, ratio, project, pullRequestFiles, workspace,
                 stats, thrown, oldStats, inputs, msgs, rendered,
                 userFilter, commentId>>

\* createComment; a failure is logged on a fork and thrown otherwise
CreateComment ==
  /\ pc = "create"
  /\ \E ok \in BOOLEAN :
       /\ requests' = Append(requests, Request("createComment", 0, ok))
       /\ thrown' = (~ok /\ ~inputs.isFork)
       /\ pc' = IF ~ok /\ ~inputs.isFork THEN "failed" ELSE "done"
  /\ UNCHANGED <<argTotal, argCovered, ratio, project, pullRequestFiles, workspace,
                 stats, oldStats, inputs, msgs, rendered,
                 userFilter, commentId>>

NextPublish ==
  \/ CheckEvent
  \/ CheckFork
  \/ GetAuthenticated
  \/ ListComments
  \/ UpdateComment
  \/ CreateComment

\* a comment: by the authenticated user, by a bot or by another user, with
\* no body, a body without the signature or a body that includes it
CommentSamples ==
  {[login |-> u[1], type |-> u[2], body |-> b] :
     u \in {<<Login, "User">>, <<<<98>>, "Bot">>, <<<<111>>, "User">>},
     b \in {Undefined, Str(<<120>>), Str(<<120>> \o signature \o <<121>>)}}

\* the i-th comment of the list has the id 10 + i
InitPublish ==
  /\ pc = "event"
  /\ \E e \in {"pull_request", "push"} :
       \E fork \in BOOLEAN :
         \E skip \in BOOLEAN :
           \E n \in 0..MaxComments :
             \E cs \in [1..n -> CommentSamples] :
               inputs = [eventName |-> e, isFork |-> fork, skipCommentOnForks |-> skip,
                         comments |-> [i \in 1..n |->
                                         [id |-> 10 + i, login |-> cs[i].login,
                                          type |-> cs[i].type, body |-> cs[i].body]]]
  /\ NothingPublished
  /\ msgs = <<>>
  /\ oldStats = NoStats
  /\ stats = NoStats
  /\ project = NoProject
  /\ pullRequestFiles = <<>>
  /\ workspace = <<>>
  /\ thrown = FALSE
  /\ argTotal = Undefined
  /\ argCovered = Undefined
  /\ ratio = NoRatio

SpecPublish == InitPublish /\ [][NextPublish]_vars

\* the calls of the log, and those that took effect
Calls(call) == {i \in 1..Len(requests) : requests[i].call = call}
Effective == {i \in 1..Len(requests) : requests[i].ok}
Skipped == inputs.skipCommentOnForks /\ inputs.isFork
Finished == pc \in {"done", "failed"}

\* the parts of the claim that do not depend on createComment succeeding:
\* an update is of a comment that passes the filter and holds the signature,
\* nothing follows an update that succeeded, a create follows only no found
\* comment or a failed update, and nothing is called when skipped or when the
\* event is not a pull request
WritesInOrder ==
  /\ \A i \in Calls("updateComment") :
       /\ i = 1
       /\ requests[i].id = commentId
       /\ \E k \in Matching(userFilter, inputs.comments) :
            inputs.comments[k].id = requests[i].id
       /\ requests[i].ok => Len(requests) = 1
  /\ \A i \in Calls("createComment") :
       /\ i = Len(requests)
       /\ \/ i = 1 /\ commentId = 0
          \/ i = 2 /\ requests[1].call = "updateComment" /\ ~requests[1].ok
  /\ Len(requests) <= 2
  /\ (Skipped \/ inputs.eventName # "pull_request") => requests = <<>>

====
